---- MODULE Spec2Model ----
(***************************************************************************)
(* AMBER nmropt restraints (CDI/amberio/rstr.py, and its predecessor       *)
(* CDI/amberio/AmberRestraint.py): the restraint objects, the flat-bottom  *)
(* harmonic energy law, the periodic image of torsions, and the restraint  *)
(* collection with its aggregate energy queries.                           *)
(*                                                                         *)
(* Numbers.  Python floats are modelled by integers on a grid, with exact  *)
(* arithmetic.  Lengths are whole Angstroms.  Angles are stored in ticks   *)
(* of a quarter turn: Pi ticks are pi radians, so 180 degrees are Pi ticks *)
(* and the report conversion 180/pi is 180 \div Pi degrees per tick.       *)
(* Inputs given in degrees are drawn from whole numbers of ticks, so that  *)
(* the division by the report conversion is exact.  Where the code halves  *)
(* a sum, (r2+r3)/2, the model compares the doubled quantities instead.    *)
(***************************************************************************)
EXTENDS Integers, Sequences, FiniteSets, TLC

VARIABLES impl,   \* the module in use: "rstr" or its predecessor "AmberRestraint"
          rst,    \* the restraint object under test (NoRstr before construction)
          coll,   \* the AmberRestraint collection (a list of restraints)
          file,   \* the restraint file: its namelist groups, in order
          job,    \* the replica exchange job: state templates, replica
                  \* status and replica directories (NoJob without a job)
          ret     \* the call that has just returned or raised, with its result

vars == <<impl, rst, coll, file, job, ret>>

NoJob == [states |-> <<>>, status |-> <<>>, dirs |-> <<>>]

Impls == {"rstr", "AmberRestraint"}

(***************************************************************************)
(* Program constants                                                       *)
(***************************************************************************)
Pi == 2             \* math.pi, in ticks
HalfTurnDeg == 180  \* 180 degrees: the 180. of 180./pi and of the r0 offsets
BigNumber == 500    \* the "really big number" of the distance kinds

(***************************************************************************)
(* Bounds of the model                                                     *)
(***************************************************************************)
MaxPos == 2       \* positions r1..r4 are assigned from 0..MaxPos (ticks or A)
MaxR0 == 3        \* r0 is assigned -MaxR0, 0 or MaxR0 (ticks or A)
MaxK == 2         \* force constants are assigned 0 or MaxK
MaxMembers == 7   \* longest collection
MaxCrds == 6      \* longest coordinate list handed to a collection

Kinds == {"Bond", "Angle", "Torsion", "Gen. Dist. Coord."}

NoRstr == [kind |-> "none", iat |-> <<>>, r |-> <<0, 0, 0, 0>>,
           rk |-> <<0, 0>>, rstwt |-> <<>>]

Abs(x) == IF x < 0 THEN -x ELSE x

Sign(x) == IF x < 0 THEN -1 ELSE IF x > 0 THEN 1 ELSE 0

ISqrt(n) == CHOOSE k \in 0..n : k * k <= n /\ (k + 1) * (k + 1) > n

RECURSIVE SumSeq(_)
SumSeq(s) == IF s = <<>> THEN 0 ELSE Head(s) + SumSeq(Tail(s))

Zeros(n) == [i \in 1..n |-> 0]

(***************************************************************************)
(* The geometry provider (module coordinates, imported by rstr.py; its     *)
(* source is not part of the sources at hand).  crds is the flat list      *)
(* x1,y1,z1,x2,...; atoms are numbered from 0.  Reading an atom beyond the *)
(* end of the list is an IndexError.                                       *)
(***************************************************************************)
HasAtom(crds, i) == 3 * i + 3 <= Len(crds)

Vec(crds, i) == <<crds[3 * i + 1], crds[3 * i + 2], crds[3 * i + 3]>>

Sub(a, b) == <<a[1] - b[1], a[2] - b[2], a[3] - b[3]>>

Dot(a, b) == a[1] * b[1] + a[2] * b[2] + a[3] * b[3]

Cross(a, b) == <<a[2] * b[3] - a[3] * b[2],
                 a[3] * b[1] - a[1] * b[3],
                 a[1] * b[2] - a[2] * b[1]>>

\* Euclidean distance of atoms i and j (exact when it is a whole number).
Bond(crds, i, j) ==
    ISqrt(Dot(Sub(Vec(crds, i), Vec(crds, j)),
              Sub(Vec(crds, i), Vec(crds, j))))

\* The unit vector along d, of length r (zero for coincident atoms).
Unit(d, r) ==
    IF r = 0 THEN <<0, 0, 0>> ELSE <<d[1] \div r, d[2] \div r, d[3] \div r>>

\* Distance and its gradient on both atoms: the unit vector along the bond
\* (exact for bonds along an axis).
BondGradients(d, r) ==
    [r |-> r, drdxi |-> Unit(d, r), drdxj |-> Unit(<<-d[1], -d[2], -d[3]>>, r)]

BondAndGradients(crds, i, j) ==
    BondGradients(Sub(Vec(crds, i), Vec(crds, j)), Bond(crds, i, j))

\* The angle whose cosine has the sign of c: 0, a quarter turn or Pi.
AngleOf(c) == IF c > 0 THEN 0 ELSE IF c = 0 THEN Pi \div 2 ELSE Pi

\* Angle i-j-k in [0, Pi] (exact for parallel and perpendicular bonds).
Angle(crds, i, j, k) ==
    AngleOf(Dot(Sub(Vec(crds, i), Vec(crds, j)),
                Sub(Vec(crds, k), Vec(crds, j))))

\* atan2(y, x) in (-Pi, Pi], in quarter turns.
Atan2(y, x) ==
    IF y > 0 THEN Pi \div 2
    ELSE IF y < 0 THEN -(Pi \div 2)
    ELSE IF x < 0 THEN Pi ELSE 0

\* The dihedral of the bond vectors b1, b2, b3 from their two normals.
DihedralOf(b1, b2, b3) ==
    Atan2(Dot(Cross(Cross(b1, b2), Cross(b2, b3)), b2),
          Dot(Cross(b1, b2), Cross(b2, b3)))

\* Dihedral i-j-k-l in (-Pi, Pi].
Dihedral(crds, i, j, k, l) ==
    DihedralOf(Sub(Vec(crds, j), Vec(crds, i)),
               Sub(Vec(crds, k), Vec(crds, j)),
               Sub(Vec(crds, l), Vec(crds, k)))

(***************************************************************************)
(* NmroptRestraint and its four kinds (rstr.py)                            *)
(***************************************************************************)
PosNames == <<"r1", "r2", "r3", "r4">>

\* self._report_conversion: 1. for the distance kinds, 180./pi for the others
ReportConversion(kind) ==
    IF kind \in {"Angle", "Torsion"} THEN HalfTurnDeg \div Pi ELSE 1

\* _harmonic_r1 of each kind; r is self._r with r0 already stored in r2, r3
harmonic_r1(kind, r) ==
    CASE kind = "Angle" -> 0
      [] kind = "Torsion" -> r[2] - HalfTurnDeg
      [] OTHER -> r[2] - BigNumber

\* _harmonic_r4 of each kind
harmonic_r4(kind, r) ==
    CASE kind = "Angle" -> HalfTurnDeg
      [] kind = "Torsion" -> r[2] + HalfTurnDeg
      [] OTHER -> r[2] + BigNumber

\* the check of the relative restraint positions
Monotonic(r) == r[1] <= r[2] /\ r[2] <= r[3] /\ r[3] <= r[4]

\* The positions SetRestraintParameters stores before it checks them.
AssignPositions(o, p) ==
    LET conv == ReportConversion(o.kind)
    IN  IF "r0" \in DOMAIN p
        THEN LET a == [o.r EXCEPT ![2] = p["r0"], ![3] = p["r0"]]
                 c == <<harmonic_r1(o.kind, a), a[2], a[3],
                        harmonic_r4(o.kind, a)>>
             IN  [i \in 1..4 |-> c[i] \div conv]
        ELSE [i \in 1..4 |-> IF PosNames[i] \in DOMAIN p
                             THEN p[PosNames[i]] \div conv
                             ELSE o.r[i]]

\* The force constants SetRestraintParameters stores after the check.
AssignForceConstants(o, p) ==
    IF "k0" \in DOMAIN p
    THEN <<p["k0"], p["k0"]>>
    ELSE <<IF "rk2" \in DOMAIN p THEN p["rk2"] ELSE o.rk[1],
           IF "rk3" \in DOMAIN p THEN p["rk3"] ELSE o.rk[2]>>

\* CheckedAssign without the check of the relative positions
CheckedAssign_Unchecked(o, p, r) ==
    [o |-> [o EXCEPT !.r = r, !.rk = AssignForceConstants(o, p)],
     exc |-> "none"]

\* NmroptRestraint.SetRestraintParameters: the object after the call and the
\* exception the call raised.  The positions are stored first, then checked.
CheckedAssign(o, p, r) ==
    IF ~Monotonic(r)
    THEN [o |-> [o EXCEPT !.r = r], exc |-> "ValueError"]
    ELSE [o |-> [o EXCEPT !.r = r, !.rk = AssignForceConstants(o, p)],
          exc |-> "none"]

SetRestraintParameters(o, p) == CheckedAssign(o, p, AssignPositions(o, p))

\* The atom count each kind asserts.
IatOk(kind, iat) ==
    CASE kind = "Bond" -> Len(iat) = 2
      [] kind = "Angle" -> Len(iat) = 3
      [] kind = "Torsion" -> Len(iat) = 4
      [] OTHER -> Len(iat) % 2 = 0

\* The constructors BondRestraint, AngleRestraint, TorsionRestraint and
\* GenDistCoordRestraint (rstwt is the parsed weight list; <<>> for the other
\* kinds).  An object whose constructor raised is never bound to a name.
\* The result carries self, the object as the constructor left it.
Constructed(kind, iat, rstwt, s) ==
    IF s.exc # "none"
    THEN [o |-> NoRstr, exc |-> s.exc, self |-> s.o]
    ELSE IF kind = "Gen. Dist. Coord." /\ Len(rstwt) # Len(iat) \div 2
    THEN [o |-> NoRstr, exc |-> "Exception",
          self |-> [s.o EXCEPT !.rstwt = rstwt]]
    ELSE [o |-> [s.o EXCEPT !.rstwt = rstwt], exc |-> "none",
          self |-> [s.o EXCEPT !.rstwt = rstwt]]

NewRestraint(kind, iat, rstwt, p) ==
    IF ~IatOk(kind, iat)
    THEN [o |-> NoRstr, exc |-> "AssertionError", self |-> NoRstr]
    ELSE Constructed(kind, iat, rstwt,
             SetRestraintParameters(
                 [kind |-> kind, iat |-> iat, r |-> <<0, 0, 0, 0>>,
                  rk |-> <<0, 0>>, rstwt |-> <<>>], p))

(***************************************************************************)
(* Coordinates of a restraint                                              *)
(***************************************************************************)
\* drdx[3*i:3*(i+1)] = g, for an atom i inside the list
SetSlice(drdx, i, g) ==
    [n \in 1..Len(drdx) |->
        IF 3 * i < n /\ n <= 3 * i + 3 THEN g[n - 3 * i] ELSE drdx[n]]

\* AddSlice storing the weighted sub-gradient instead of adding it
AddSlice_Overwrite(drdx, i, w, g) ==
    [n \in 1..Len(drdx) |->
        IF 3 * i < n /\ n <= 3 * i + 3 THEN w * g[n - 3 * i] ELSE drdx[n]]

\* drdx[3*i+m] += w*g[m] for m in range(3)
AddSlice(drdx, i, w, g) ==
    [n \in 1..Len(drdx) |->
        IF 3 * i < n /\ n <= 3 * i + 3
        THEN drdx[n] + w * g[n - 3 * i] ELSE drdx[n]]

\* every atom of the restraint is inside the coordinate list
AtomsInside(o, crds) ==
    \A n \in 1..Len(o.iat) : o.iat[n] >= 1 /\ HasAtom(crds, o.iat[n] - 1)

\* Coord without the while loop
CoordNearestImage_Raw(r, rmean2) == r

\* The while loop of TorsionRestraint.Coord: the periodic image of r that is
\* nearest to rmean; rmean2 is r2 + r3, twice rmean.
RECURSIVE CoordNearestImage(_, _)
CoordNearestImage(r, rmean2) ==
    IF 2 * r - rmean2 > 2 * Pi THEN CoordNearestImage(r - 2 * Pi, rmean2)
    ELSE IF rmean2 - 2 * r > 2 * Pi THEN CoordNearestImage(r + 2 * Pi, rmean2)
    ELSE r

\* CoordAndGradients without the while loop
GradNearestImage_Raw(r, rmean2) == r

\* The while loop of TorsionRestraint.CoordAndGradients.
RECURSIVE GradNearestImage(_, _)
GradNearestImage(r, rmean2) ==
    IF 2 * r - rmean2 > 2 * Pi THEN GradNearestImage(r - 2 * Pi, rmean2)
    ELSE IF rmean2 - 2 * r > 2 * Pi THEN GradNearestImage(r + 2 * Pi, rmean2)
    ELSE r

\* Weighted sum of the pair distances of a generalized distance coordinate.
RECURSIVE GenDistSum(_, _, _)
GenDistSum(o, crds, k) ==
    IF k = 0 THEN 0
    ELSE GenDistSum(o, crds, k - 1)
         + o.rstwt[k] * BondAndGradients(crds, o.iat[2 * k - 1] - 1,
                                         o.iat[2 * k] - 1).r

\* One pair of a generalized distance coordinate added to the gradient.
AddPair(drdx, i, j, w, b) ==
    AddSlice(AddSlice(drdx, i, w, b.drdxi), j, w, b.drdxj)

\* The gradient a generalized distance coordinate accumulates over its pairs.
RECURSIVE GenDistGrad(_, _, _)
GenDistGrad(o, crds, k) ==
    IF k = 0 THEN Zeros(Len(crds))
    ELSE AddPair(GenDistGrad(o, crds, k - 1),
                 o.iat[2 * k - 1] - 1, o.iat[2 * k] - 1, o.rstwt[k],
                 BondAndGradients(crds, o.iat[2 * k - 1] - 1,
                                  o.iat[2 * k] - 1))

\* Coord of each kind: the value, or the exception of the geometry provider.
Coord(o, crds) ==
    IF ~AtomsInside(o, crds) THEN [exc |-> "IndexError", r |-> 0]
    ELSE [exc |-> "none",
          r |-> CASE o.kind = "Bond" ->
                       Bond(crds, o.iat[1] - 1, o.iat[2] - 1)
                  [] o.kind = "Angle" ->
                       Angle(crds, o.iat[1] - 1, o.iat[2] - 1, o.iat[3] - 1)
                  [] o.kind = "Torsion" ->
                       CoordNearestImage(
                           Dihedral(crds, o.iat[1] - 1, o.iat[2] - 1,
                                    o.iat[3] - 1, o.iat[4] - 1),
                           o.r[2] + o.r[3])
                  [] OTHER -> GenDistSum(o, crds, Len(o.rstwt))]

\* BondRestraint.CoordAndGradients, given what the provider returned.
BondSlices(crds, i, j, b) ==
    [exc |-> "none", r |-> b.r,
     drdx |-> SetSlice(SetSlice(Zeros(Len(crds)), i, b.drdxi), j, b.drdxj)]

\* CoordAndGradients of each kind: the value and dr/dx over the whole list.
\* The angle and dihedral providers return zero sub-gradients.
CoordAndGradients(o, crds) ==
    IF ~AtomsInside(o, crds)
    THEN [exc |-> "IndexError", r |-> 0, drdx |-> <<>>]
    ELSE CASE o.kind = "Bond" ->
                BondSlices(crds, o.iat[1] - 1, o.iat[2] - 1,
                           BondAndGradients(crds, o.iat[1] - 1, o.iat[2] - 1))
           [] o.kind = "Angle" ->
                [exc |-> "none",
                 r |-> Angle(crds, o.iat[1] - 1, o.iat[2] - 1, o.iat[3] - 1),
                 drdx |-> Zeros(Len(crds))]
           [] o.kind = "Torsion" ->
                [exc |-> "none",
                 r |-> GradNearestImage(
                           Dihedral(crds, o.iat[1] - 1, o.iat[2] - 1,
                                    o.iat[3] - 1, o.iat[4] - 1),
                           o.r[2] + o.r[3]),
                 drdx |-> Zeros(Len(crds))]
           [] OTHER ->
                [exc |-> "none", r |-> GenDistSum(o, crds, Len(o.rstwt)),
                 drdx |-> GenDistGrad(o, crds, Len(o.rstwt))]

(***************************************************************************)
(* The flat-bottom harmonic well                                           *)
(***************************************************************************)
\* BranchOf with r3 for r2 in the second test
BranchOf_WideLeft(o, r) ==
    IF r < o.r[1] THEN 1
    ELSE IF o.r[1] <= r /\ r < o.r[3] THEN 2
    ELSE IF o.r[2] <= r /\ r < o.r[3] THEN 3
    ELSE IF o.r[3] <= r /\ r < o.r[4] THEN 4
    ELSE 5

\* The branch of the if/elif chain of EnergyAndGradients that r takes.
BranchOf(o, r) ==
    IF r < o.r[1] THEN 1
    ELSE IF o.r[1] <= r /\ r < o.r[2] THEN 2
    ELSE IF o.r[2] <= r /\ r < o.r[3] THEN 3
    ELSE IF o.r[3] <= r /\ r < o.r[4] THEN 4
    ELSE 5

\* EnergyBranch whose last branch drops the constant term
EnergyBranch_NoOffset(o, b, r) ==
    CASE b = 1 -> LET dr == o.r[1] - o.r[2]
                      dedr == 2 * o.rk[1] * dr
                  IN  [dedr |-> dedr,
                       e |-> dedr * (r - o.r[1]) + o.rk[1] * dr * dr]
      [] b = 2 -> LET dr == r - o.r[2]
                  IN  [dedr |-> 2 * o.rk[1] * dr, e |-> o.rk[1] * dr * dr]
      [] b = 3 -> [dedr |-> 0, e |-> 0]
      [] b = 4 -> LET dr == r - o.r[3]
                  IN  [dedr |-> 2 * o.rk[2] * dr, e |-> o.rk[2] * dr * dr]
      [] OTHER -> LET dr == o.r[4] - o.r[3]
                      dedr == 2 * o.rk[2] * dr
                  IN  [dedr |-> dedr, e |-> dedr * (r - o.r[4])]

\* dE/dr and the energy that branch b assigns at r.
EnergyBranch(o, b, r) ==
    CASE b = 1 -> LET dr == o.r[1] - o.r[2]
                      dedr == 2 * o.rk[1] * dr
                  IN  [dedr |-> dedr,
                       e |-> dedr * (r - o.r[1]) + o.rk[1] * dr * dr]
      [] b = 2 -> LET dr == r - o.r[2]
                  IN  [dedr |-> 2 * o.rk[1] * dr, e |-> o.rk[1] * dr * dr]
      [] b = 3 -> [dedr |-> 0, e |-> 0]
      [] b = 4 -> LET dr == r - o.r[3]
                  IN  [dedr |-> 2 * o.rk[2] * dr, e |-> o.rk[2] * dr * dr]
      [] OTHER -> LET dr == o.r[4] - o.r[3]
                      dedr == 2 * o.rk[2] * dr
                  IN  [dedr |-> dedr,
                       e |-> dedr * (r - o.r[4]) + o.rk[2] * dr * dr]

\* An argument of Energy: a number (the shortcut) or a coordinate list.
Num(x) == [num |-> TRUE, x |-> x, crds |-> <<>>]

Crd(crds) == [num |-> FALSE, x |-> 0, crds |-> crds]

\* The chain rule: dE/dx = (dE/dr)(dr/dx), with v the branch's dE/dr and
\* energy at the coordinate c.r.
ChainRule(c, v) ==
    [exc |-> "none", r |-> c.r, dedr |-> v.dedr, e |-> v.e,
     g |-> [n \in 1..Len(c.drdx) |-> v.dedr * c.drdx[n]]]

\* The well evaluated at the coordinate and gradient c.
WellAt(o, c) ==
    IF c.exc # "none"
    THEN [exc |-> c.exc, r |-> 0, dedr |-> 0, e |-> 0, g |-> <<>>]
    ELSE ChainRule(c, EnergyBranch(o, BranchOf(o, c.r), c.r))

\* NmroptRestraint.EnergyAndGradients: a number is the coordinate itself
\* (the shortcut), a list goes through CoordAndGradients.
EnergyAndGradients(o, a) ==
    WellAt(o, IF a.num THEN [exc |-> "none", r |-> a.x, drdx |-> <<0>>]
              ELSE CoordAndGradients(o, a.crds))

\* energy, gradients = ...; return energy
DropGradients(v) == [exc |-> v.exc, e |-> v.e]

\* NmroptRestraint.Energy
Energy(o, a) == DropGradients(EnergyAndGradients(o, a))

(***************************************************************************)
(* NmroptRestraint of the predecessor module (AmberRestraint.py): one      *)
(* class, the kind in rstType, positions in self.r                         *)
(***************************************************************************)
\* The positions Legacy_SetRestraintParameters assigns, in the units given.
Legacy_AssignPositions(o, p) ==
    IF "r0" \in DOMAIN p
    THEN CASE o.kind = "Torsion" ->
                <<p["r0"] - HalfTurnDeg, p["r0"], p["r0"],
                  p["r0"] + HalfTurnDeg>>
           [] o.kind = "Angle" ->
                <<0, p["r0"], p["r0"], p["r0"] + HalfTurnDeg>>
           [] OTHER ->
                <<0, p["r0"], p["r0"], p["r0"] + BigNumber>>
    ELSE [i \in 1..4 |-> IF PosNames[i] \in DOMAIN p
                         THEN p[PosNames[i]] ELSE o.r[i]]

\* self.r = [ r*pi/180. for r in self.r ]: every position, the stored ones
\* too, whenever the kind is Angle or Torsion (rounded down to the grid).
Legacy_ToRadians(kind, r) ==
    IF kind \in {"Angle", "Torsion"}
    THEN [i \in 1..4 |-> (r[i] * Pi) \div HalfTurnDeg]
    ELSE r

\* SetRestraintParameters of AmberRestraint.py
Legacy_SetRestraintParameters(o, p) ==
    CheckedAssign(o, p, Legacy_ToRadians(o.kind, Legacy_AssignPositions(o, p)))

\* rstType from the atom count, when no rstwt is given
Legacy_rstType(iat) ==
    CASE Len(iat) = 2 -> "Bond"
      [] Len(iat) = 3 -> "Angle"
      [] Len(iat) = 4 -> "Torsion"
      [] OTHER -> "none"

Legacy_Constructed(s) == [o |-> IF s.exc = "none" THEN s.o ELSE NoRstr,
                          exc |-> s.exc, self |-> s.o]

\* NmroptRestraint(iat, **p) of AmberRestraint.py; rstwt = <<>> when the
\* keyword is absent.  With rstwt the length check reads the undefined name
\* nAtoms and raises NameError.
Legacy_NewRestraint(iat, rstwt, p) ==
    IF rstwt # <<>>
    THEN [o |-> NoRstr, exc |-> "NameError", self |-> NoRstr]
    ELSE IF Legacy_rstType(iat) = "none"
    THEN [o |-> NoRstr, exc |-> "Exception", self |-> NoRstr]
    ELSE Legacy_Constructed(
             Legacy_SetRestraintParameters(
                 [kind |-> Legacy_rstType(iat), iat |-> iat,
                  r |-> <<0, 0, 0, 0>>, rk |-> <<0, 0>>, rstwt |-> <<>>], p))

\* Weighted sum of the pair distances, with coordinates.Bond.
RECURSIVE Legacy_GenDistSum(_, _, _)
Legacy_GenDistSum(o, crds, k) ==
    IF k = 0 THEN 0
    ELSE Legacy_GenDistSum(o, crds, k - 1)
         + o.rstwt[k] * Bond(crds, o.iat[2 * k - 1] - 1, o.iat[2 * k] - 1)

\* CoordAndGradients of AmberRestraint.py: the provider's value as it is, and
\* a gradient of zeros (the gradient calls are commented out).
Legacy_CoordAndGradients(o, crds) ==
    IF ~AtomsInside(o, crds)
    THEN [exc |-> "IndexError", r |-> 0, drdx |-> <<>>]
    ELSE [exc |-> "none",
          r |-> CASE o.kind = "Bond" ->
                       Bond(crds, o.iat[1] - 1, o.iat[2] - 1)
                  [] o.kind = "Angle" ->
                       Angle(crds, o.iat[1] - 1, o.iat[2] - 1, o.iat[3] - 1)
                  [] o.kind = "Torsion" ->
                       Dihedral(crds, o.iat[1] - 1, o.iat[2] - 1,
                                o.iat[3] - 1, o.iat[4] - 1)
                  [] OTHER -> Legacy_GenDistSum(o, crds, Len(o.rstwt)),
          drdx |-> Zeros(Len(crds))]

\* r, drdx = self.CoordAndGradients(crds); return r
DropGradient(c) == [exc |-> c.exc, r |-> c.r]

\* Coord of AmberRestraint.py
Legacy_Coord(o, crds) == DropGradient(Legacy_CoordAndGradients(o, crds))

\* EnergyAndGradients of AmberRestraint.py: no shortcut, so a number fails in
\* len(crds) with TypeError.
Legacy_EnergyAndGradients(o, a) ==
    WellAt(o, IF a.num THEN [exc |-> "TypeError", r |-> 0, drdx |-> <<>>]
              ELSE Legacy_CoordAndGradients(o, a.crds))

\* Energy of AmberRestraint.py
Legacy_Energy(o, a) == DropGradients(Legacy_EnergyAndGradients(o, a))

(***************************************************************************)
(* The module in use decides which definition a call reaches.              *)
(***************************************************************************)
TheSetRestraintParameters(o, p) ==
    IF impl = "rstr" THEN SetRestraintParameters(o, p)
    ELSE Legacy_SetRestraintParameters(o, p)

TheCoord(o, crds) ==
    IF impl = "rstr" THEN Coord(o, crds) ELSE Legacy_Coord(o, crds)

TheCoordAndGradients(o, crds) ==
    IF impl = "rstr" THEN CoordAndGradients(o, crds)
    ELSE Legacy_CoordAndGradients(o, crds)

TheEnergyAndGradients(o, a) ==
    IF impl = "rstr" THEN EnergyAndGradients(o, a)
    ELSE Legacy_EnergyAndGradients(o, a)

TheEnergy(o, a) ==
    IF impl = "rstr" THEN Energy(o, a) ELSE Legacy_Energy(o, a)

(***************************************************************************)
(* AmberRestraint, the collection                                          *)
(***************************************************************************)
\* the dict DecomposeEnergy starts from
NoDec == [Bond |-> 0, Angle |-> 0, Torsion |-> 0, GenDist |-> 0,
          Restraint |-> 0]

NoEnergy == [exc |-> "none", e |-> 0]

\* energy += rst.Energy(...): an exception of the member ends the call
AddEnergy(acc, v) ==
    IF acc.exc # "none" THEN acc
    ELSE IF v.exc # "none" THEN [exc |-> v.exc, e |-> 0]
    ELSE [exc |-> "none", e |-> acc.e + v.e]

\* every member with the first value of the list
ScalarArgs_First(crds) == [i \in 1..Len(crds) |-> Num(crds[1])]

\* for rst,r in zip(self,crds): each member with one value of the list
ScalarArgs(crds) == [i \in 1..Len(crds) |-> Num(crds[i])]

\* for rst in self: each of n members with the whole list
FullArgs(n, crds) == [i \in 1..n |-> Crd(crds)]

\* The loops of Energy over the first n members.
RECURSIVE EnergyLoop(_, _, _)
EnergyLoop(c, args, n) ==
    IF n = 0 THEN NoEnergy
    ELSE AddEnergy(EnergyLoop(c, args, n - 1), TheEnergy(c[n], args[n]))

\* AmberRestraint.Energy of rstr.py
AmberRestraint_Energy(c, crds) ==
    IF Len(crds) = Len(c)
    THEN EnergyLoop(c, ScalarArgs(crds), Len(c))
    ELSE EnergyLoop(c, FullArgs(Len(c), crds), Len(c))

\* AmberRestraint.Energy of AmberRestraint.py
Legacy_AmberRestraint_Energy(c, crds) ==
    EnergyLoop(c, FullArgs(Len(c), crds), Len(c))

\* e,g = rst.EnergyAndGradients(crds); energy += e; gradients[i] += g[i]
AddEnergyAndGradients(acc, v) ==
    IF acc.exc # "none" THEN acc
    ELSE IF v.exc # "none" THEN [exc |-> v.exc, e |-> 0, g |-> <<>>]
    ELSE [exc |-> "none", e |-> acc.e + v.e,
          g |-> [i \in 1..Len(acc.g) |->
                    IF i <= Len(v.g) THEN acc.g[i] + v.g[i] ELSE acc.g[i]]]

\* AmberRestraint.EnergyAndGradients of both modules, over the first n
\* members: every member is handed the whole list.
RECURSIVE AmberRestraint_EnergyAndGradients(_, _, _)
AmberRestraint_EnergyAndGradients(c, crds, n) ==
    IF n = 0 THEN [exc |-> "none", e |-> 0, g |-> Zeros(Len(crds))]
    ELSE AddEnergyAndGradients(
             AmberRestraint_EnergyAndGradients(c, crds, n - 1),
             TheEnergyAndGradients(c[n], Crd(crds)))

\* energy[component_type[type(rst)]] += rst.Energy(...)
AddComponent(acc, kind, v) ==
    IF acc.exc # "none" THEN acc
    ELSE IF v.exc # "none" THEN [exc |-> v.exc, dec |-> NoDec]
    ELSE [exc |-> "none",
          dec |-> CASE kind = "Bond" ->
                         [acc.dec EXCEPT !.Bond = @ + v.e]
                    [] kind = "Angle" ->
                         [acc.dec EXCEPT !.Angle = @ + v.e]
                    [] kind = "Torsion" ->
                         [acc.dec EXCEPT !.Torsion = @ + v.e]
                    [] OTHER ->
                         [acc.dec EXCEPT !.GenDist = @ + v.e]]

\* The loops of DecomposeEnergy over the first n members.
RECURSIVE ComponentLoop(_, _, _)
ComponentLoop(c, args, n) ==
    IF n = 0 THEN [exc |-> "none", dec |-> NoDec]
    ELSE AddComponent(ComponentLoop(c, args, n - 1), c[n].kind,
                      TheEnergy(c[n], args[n]))

\* energy['Restraint'] = the sum of the entries
WithTotal(d) ==
    IF d.exc # "none" THEN d
    ELSE [d EXCEPT !.dec.Restraint =
              d.dec.Bond + d.dec.Angle + d.dec.Torsion + d.dec.GenDist]

\* zip(self,crds) stops at the shorter of the two
ZipLen(c, crds) == IF Len(c) <= Len(crds) THEN Len(c) ELSE Len(crds)

\* AmberRestraint.DecomposeEnergy of rstr.py: both branches run over
\* zip(self,crds).
AmberRestraint_DecomposeEnergy(c, crds) ==
    WithTotal(IF Len(crds) = Len(c)
              THEN ComponentLoop(c, ScalarArgs(crds), ZipLen(c, crds))
              ELSE ComponentLoop(c, FullArgs(Len(c), crds), ZipLen(c, crds)))

\* AmberRestraint.DecomposeEnergy of AmberRestraint.py: for rst in self
Legacy_AmberRestraint_DecomposeEnergy(c, crds) ==
    WithTotal(ComponentLoop(c, FullArgs(Len(c), crds), Len(c)))

TheCollEnergy(c, crds) ==
    IF impl = "rstr" THEN AmberRestraint_Energy(c, crds)
    ELSE Legacy_AmberRestraint_Energy(c, crds)

TheDecomposeEnergy(c, crds) ==
    IF impl = "rstr" THEN AmberRestraint_DecomposeEnergy(c, crds)
    ELSE Legacy_AmberRestraint_DecomposeEnergy(c, crds)

(***************************************************************************)
(* Inputs of the calls                                                     *)
(***************************************************************************)
EmptyParams == [n \in {} |-> 0]

PosIn(kind) == {n * ReportConversion(kind) : n \in 0..MaxPos}

R0In(kind) == {n * ReportConversion(kind) : n \in {-MaxR0, 0, MaxR0}}

KIn == {0, MaxK}

\* keyword arguments that name positions: none, r0, one position, r2 and r3
PosParams(kind) ==
    {EmptyParams}
    \cup [{"r0"} -> R0In(kind)]
    \cup UNION {[{n} -> PosIn(kind)] : n \in {"r1", "r2", "r3", "r4"}}
    \cup [{"r2", "r3"} -> PosIn(kind)]

\* keyword arguments that name all four positions
AllPosParams(kind) == [{"r1", "r2", "r3", "r4"} -> PosIn(kind)]

\* keyword arguments that name force constants
KParams ==
    {EmptyParams}
    \cup UNION {[{n} -> KIn] : n \in {"k0", "rk2", "rk3"}}
    \cup [{"rk2", "rk3"} -> KIn]

\* the keyword arguments of SetRestraintParameters
ParamInputs(kind) ==
    KParams \cup {pp @@ kp : pp \in PosParams(kind),
                             kp \in {EmptyParams, [n \in {"k0"} |-> MaxK]}}

\* the keyword arguments of the constructors
NewParamInputs(kind) ==
    ParamInputs(kind)
    \cup {pp @@ kp : pp \in AllPosParams(kind),
                     kp \in [{"rk2", "rk3"} -> KIn]}

\* both, tabulated by kind
SetInputs == [kind \in Kinds |-> ParamInputs(kind)]

NewInputs == [kind \in Kinds |-> NewParamInputs(kind)]

\* atom lists and weight lists of the constructors
IatInputs == {<<1, 2>>, <<1, 2, 3>>, <<1, 2, 3, 4>>}

RstwtInputs(kind) ==
    IF kind = "Gen. Dist. Coord." THEN {<<1, 2>>, <<1, 2, 3>>} ELSE {<<>>}

\* coordinate values handed to Energy as a number
CoordVals ==
    ((-MaxR0 - 1)..(MaxR0 + Pi))
    \cup {-BigNumber - 1, BigNumber + MaxR0 + 1}

\* Coordinate lists of four atoms: atom 2 at the origin, atom 3 one step up
\* the z axis, atom 1 at a and atom 4 one step d away from atom 3.
Conformation(a, d) ==
    <<a[1], a[2], a[3], 0, 0, 0, 0, 0, 1, d[1], d[2], 1 + d[3]>>

Conformations ==
    {Conformation(<<1, 0, 0>>, d) :
        d \in {<<1, 0, 0>>, <<0, 1, 0>>, <<-1, 0, 0>>, <<0, -1, 0>>}}
    \cup {Conformation(a, <<1, 0, 0>>) :
        a \in {<<2, 0, 0>>, <<0, 0, 1>>, <<0, 0, -1>>}}

\* coordinate lists handed to one restraint: four atoms, or too few
CrdsInputs == Conformations \cup {<<>>, <<1, 0, 0, 0, 0, 0>>}

(***************************************************************************)
(* One restraint object: construction, assignment and queries              *)
(***************************************************************************)
\* arg, kw and other are what the call was given; val, r, dedr, e, g, dec,
\* self and was are what it returned or what the caller kept from before
NoRet == [op |-> "none", exc |-> "none", arg |-> Num(0), r |-> 0,
          dedr |-> 0, e |-> 0, g |-> <<>>, dec |-> NoDec, self |-> NoRstr,
          kw |-> EmptyParams, other |-> <<>>, val |-> FALSE, was |-> <<>>,
          lines |-> <<>>]

Idle == ret.op = "none"

\* what a constructor call leaves: the object, if any, and the exception
NewRet(n) == [NoRet EXCEPT !.op = "__init__", !.exc = n.exc, !.self = n.self]

\* obj = BondRestraint(iat, **p), AngleRestraint(...), ... (rstr.py)
Construct(kind, iat, rstwt, p) ==
    /\ Idle
    /\ impl = "rstr"
    /\ rst = NoRstr
    /\ rst' = NewRestraint(kind, iat, rstwt, p).o
    /\ ret' = NewRet(NewRestraint(kind, iat, rstwt, p))
    /\ UNCHANGED <<impl, job, file, coll>>

\* obj = NmroptRestraint(iat, **p) (AmberRestraint.py)
LegacyConstruct(iat, rstwt, p) ==
    /\ Idle
    /\ impl = "AmberRestraint"
    /\ rst = NoRstr
    /\ rst' = Legacy_NewRestraint(iat, rstwt, p).o
    /\ ret' = NewRet(Legacy_NewRestraint(iat, rstwt, p))
    /\ UNCHANGED <<impl, job, file, coll>>

\* obj.SetRestraintParameters(**p)
CallSetRestraintParameters(p) ==
    /\ Idle
    /\ rst # NoRstr
    /\ rst' = TheSetRestraintParameters(rst, p).o
    /\ ret' = [NoRet EXCEPT !.op = "SetRestraintParameters",
                            !.exc = TheSetRestraintParameters(rst, p).exc]
    /\ UNCHANGED <<impl, job, file, coll>>

EnergyRet(a, v, w) ==
    [NoRet EXCEPT !.op = "Energy", !.exc = w.exc, !.arg = a, !.r = v.r,
                  !.dedr = v.dedr, !.e = w.e, !.g = v.g]

\* obj.Energy(a), which is obj.EnergyAndGradients(a) with the gradient
\* dropped: ret.e is the energy returned; ret.r, ret.dedr and ret.g are the
\* coordinate, dE/dr and gradient of the inner call.
CallEnergy(a) ==
    /\ Idle
    /\ rst # NoRstr
    /\ ret' = EnergyRet(a, TheEnergyAndGradients(rst, a), TheEnergy(rst, a))
    /\ UNCHANGED <<impl, job, file, rst, coll>>

CoordRet(op, crds, v, drdx) ==
    [NoRet EXCEPT !.op = op, !.exc = v.exc, !.arg = Crd(crds), !.r = v.r,
                  !.g = drdx]

\* obj.Coord(crds)
CallCoord(crds) ==
    /\ Idle
    /\ rst # NoRstr
    /\ ret' = CoordRet("Coord", crds, TheCoord(rst, crds), <<>>)
    /\ UNCHANGED <<impl, job, file, rst, coll>>

\* obj.CoordAndGradients(crds)
CallCoordAndGradients(crds) ==
    /\ Idle
    /\ rst # NoRstr
    /\ ret' = CoordRet("CoordAndGradients", crds,
                       TheCoordAndGradients(rst, crds),
                       TheCoordAndGradients(rst, crds).drdx)
    /\ UNCHANGED <<impl, job, file, rst, coll>>

\* The caller takes the result, or catches the exception, and goes on.
Resume ==
    /\ ~Idle
    /\ ret' = NoRet
    /\ UNCHANGED <<impl, job, file, rst, coll>>

Init ==
    /\ impl \in Impls
    /\ rst = NoRstr
    /\ coll = <<>>
    /\ file = <<>>
    /\ job = NoJob
    /\ ret = NoRet

\* The calls are tried with every input only where a call can be made.
Next ==
    \/ /\ Idle /\ rst = NoRstr /\ impl = "rstr"
       /\ \E kind \in Kinds, iat \in IatInputs :
            \E rstwt \in RstwtInputs(kind), p \in NewInputs[kind] :
               Construct(kind, iat, rstwt, p)
    \/ /\ Idle /\ rst = NoRstr /\ impl = "AmberRestraint"
       /\ \E iat \in IatInputs, rstwt \in {<<>>, <<1, 2>>} :
            \E p \in NewInputs[Legacy_rstType(iat)] :
               LegacyConstruct(iat, rstwt, p)
    \/ /\ Idle /\ rst # NoRstr
       /\ \E p \in SetInputs[rst.kind] : CallSetRestraintParameters(p)
    \/ /\ Idle /\ rst # NoRstr
       /\ \E x \in CoordVals : CallEnergy(Num(x))
    \/ /\ Idle /\ rst # NoRstr
       /\ \E crds \in CrdsInputs : CallEnergy(Crd(crds))
    \/ /\ Idle /\ rst # NoRstr
       /\ \E crds \in CrdsInputs : CallCoord(crds)
    \/ /\ Idle /\ rst # NoRstr
       /\ \E crds \in CrdsInputs : CallCoordAndGradients(crds)
    \/ Resume

Spec == Init /\ [][Next]_vars

(***************************************************************************)
(* Properties of one restraint                                             *)
(***************************************************************************)
NonDecreasing(r) == \A i \in 1..3 : r[i] <= r[i + 1]

Assigned == ret.op \in {"__init__", "SetRestraintParameters"}

Evaluated == ret.op = "Energy" /\ ret.exc = "none"

\* C1: for a restraint of any kind, after construction and after every
\* SetRestraintParameters call that returns normally the positions satisfy
\* r1 <= r2 <= r3 <= r4; a construction or assignment whose resulting
\* positions are not non-decreasing raises ValueError.
C1_PositionsMonotone ==
    /\ (Assigned /\ ret.exc = "none") =>
          (rst # NoRstr /\ NonDecreasing(rst.r))
    /\ (ret.op = "SetRestraintParameters" /\ ~NonDecreasing(rst.r)) =>
          ret.exc = "ValueError"
    /\ (ret.op = "__init__" /\ ~NonDecreasing(ret.self.r)) =>
          (ret.exc = "ValueError" /\ rst = NoRstr)

\* An assignment to a torsion returned normally and left four distinct
\* positions.
C1_Witness ==
    /\ ret.op = "SetRestraintParameters" /\ ret.exc = "none"
    /\ rst.kind = "Torsion"
    /\ \A i \in 1..3 : rst.r[i] < rst.r[i + 1]

\* C2: no restraint object with non-monotone positions exists (a failed
\* construction yields no object, a failed assignment leaves the positions
\* as they were before the call).
C2_NoInvalidRestraint == rst # NoRstr => NonDecreasing(rst.r)

\* The energy the piecewise law assigns to r, case by case.
LawHolds(r1, r2, r3, r4, kl, kr, r, e) ==
    /\ r < r1 =>
          e = 2 * kl * (r1 - r2) * (r - r1) + kl * (r1 - r2) * (r1 - r2)
    /\ (r1 <= r /\ r < r2) => e = kl * (r - r2) * (r - r2)
    /\ (r2 <= r /\ r < r3) => e = 0
    /\ (r3 <= r /\ r < r4) => e = kr * (r - r3) * (r - r3)
    /\ r >= r4 =>
          e = 2 * kr * (r4 - r3) * (r - r4) + kr * (r4 - r3) * (r4 - r3)

\* C3: for every restraint and every coordinate value r, Energy returns
\* what the five-piece law gives: linear below r1, k_left (r-r2)^2 on
\* [r1,r2), 0 on [r2,r3), k_right (r-r3)^2 on [r3,r4), linear from r4 on.
C3_PiecewiseLaw ==
    Evaluated =>
        LawHolds(rst.r[1], rst.r[2], rst.r[3], rst.r[4],
                 rst.rk[1], rst.rk[2], ret.r, ret.e)

\* C3 on the restraints whose positions are non-decreasing
C3_LawOnWellFormed == NonDecreasing(rst.r) => C3_PiecewiseLaw

\* C4: on a well-formed restraint, degenerate ones included, every r with
\* r2 <= r <= r3 has energy 0 and dE/dr 0.
C4_FlatBottom ==
    (Evaluated /\ NonDecreasing(rst.r)
       /\ rst.r[2] <= ret.r /\ ret.r <= rst.r[3]) =>
          (ret.e = 0 /\ ret.dedr = 0)

\* Energy at r = r3 = r4 > r2 with a positive right force constant: the
\* degenerate right wall.
C4_Witness ==
    /\ Evaluated /\ NonDecreasing(rst.r)
    /\ rst.rk[2] > 0
    /\ rst.r[2] < rst.r[3] /\ rst.r[3] = rst.r[4]
    /\ ret.r = rst.r[3]

\* C5: on a well-formed restraint, at each of r1, r2, r3, r4 the closed
\* forms of the two adjacent branches give the same energy and the same
\* dE/dr, and that is what the code returns there.
C5_Continuous ==
    (Evaluated /\ NonDecreasing(rst.r)) =>
        \A i \in 1..4 :
            ret.r = rst.r[i] =>
                /\ EnergyBranch(rst, i, ret.r) = EnergyBranch(rst, i + 1, ret.r)
                /\ ret.e = EnergyBranch(rst, i, ret.r).e
                /\ ret.dedr = EnergyBranch(rst, i, ret.r).dedr

\* Energy at r = r4, up a right wall of positive width and force constant.
C5_Witness ==
    /\ Evaluated /\ NonDecreasing(rst.r)
    /\ rst.rk[2] > 0 /\ rst.r[3] < rst.r[4]
    /\ ret.r = rst.r[4]
    /\ ret.e > 0

\* the raw dihedral of the coordinate list a torsion call was given
RawDihedral ==
    Dihedral(ret.arg.crds, rst.iat[1] - 1, rst.iat[2] - 1,
             rst.iat[3] - 1, rst.iat[4] - 1)

TorsionCoord ==
    /\ rst.kind = "Torsion"
    /\ ret.op \in {"Coord", "CoordAndGradients"}
    /\ ret.exc = "none"

\* C6 as stated: after nearest-image selection the returned torsion value
\* lies in the half-open interval (c - pi, c + pi], c = (r2 + r3)/2.
C6_HalfOpenInterval ==
    (impl = "rstr" /\ TorsionCoord) =>
        /\ 2 * ret.r - (rst.r[2] + rst.r[3]) > -2 * Pi
        /\ 2 * ret.r - (rst.r[2] + rst.r[3]) <= 2 * Pi

\* C6: after nearest-image selection in rstr.py the returned torsion value
\* is the raw dihedral shifted by a whole number of turns and lies in the
\* closed interval [c - pi, c + pi], c = (r2 + r3)/2.
C6_ClosedInterval ==
    (impl = "rstr" /\ TorsionCoord) =>
        /\ (ret.r - RawDihedral) % (2 * Pi) = 0
        /\ 2 * ret.r - (rst.r[2] + rst.r[3]) >= -2 * Pi
        /\ 2 * ret.r - (rst.r[2] + rst.r[3]) <= 2 * Pi

\* Coord returned a shifted dihedral.
C6_Witness ==
    /\ impl = "rstr" /\ TorsionCoord /\ ret.op = "Coord"
    /\ ret.r # RawDihedral

\* C7: for a torsion restraint Coord and the coordinate of
\* CoordAndGradients are the same value, the periodic image of the raw
\* dihedral nearest to (r2 + r3)/2, and the energy is that of the image.
C7_SameNearestImage ==
    (rst.kind = "Torsion" /\ ret.exc = "none" /\ ~ret.arg.num
       /\ ret.op \in {"Coord", "CoordAndGradients", "Energy"}) =>
        /\ (ret.r - RawDihedral) % (2 * Pi) = 0
        /\ Abs(2 * ret.r - (rst.r[2] + rst.r[3])) <= 2 * Pi
        /\ ret.r = TheCoord(rst, ret.arg.crds).r
        /\ ret.r = TheCoordAndGradients(rst, ret.arg.crds).r
        /\ ret.op = "Energy" =>
              ret.e = EnergyBranch(rst, BranchOf(rst, ret.r), ret.r).e

\* C7 in rstr.py alone
C7_InRstr == impl = "rstr" => C7_SameNearestImage

(***************************************************************************)
(* The collection: members are appended, then the collection is evaluated  *)
(***************************************************************************)
\* the members appended: two kinds on atoms 1 and 2 in rstr.py; a bond and
\* an angle in AmberRestraint.py, which cannot construct the fourth kind
MemberInputs ==
    IF impl = "rstr"
    THEN {NewRestraint("Bond", <<1, 2>>, <<>>,
                       [n \in {"r0", "k0"} |-> IF n = "r0" THEN 2 ELSE 1]).o,
          NewRestraint("Gen. Dist. Coord.", <<1, 2>>, <<2>>,
                       [n \in {"r0", "k0"} |-> 2]).o}
    ELSE {Legacy_NewRestraint(<<1, 2>>, <<>>,
                       [n \in {"r0", "k0"} |-> IF n = "r0" THEN 2 ELSE 1]).o,
          Legacy_NewRestraint(<<1, 2, 3>>, <<>>,
                       [n \in {"r0", "k0"} |->
                           IF n = "r0" THEN HalfTurnDeg ELSE 1]).o}

\* a list of n numbers, a and b in turn
Alternating(n, a, b) == [i \in 1..n |-> IF i % 2 = 1 THEN a ELSE b]

\* the lists handed to the collection: Cartesian positions of up to
\* MaxCrds numbers, which are also one number per member
CollCrdsInputs ==
    {Alternating(n, a, b) : n \in 0..MaxCrds, a \in 0..1, b \in 0..1}

\* coll.append(member)
AppendMember(m) ==
    /\ Idle
    /\ Len(coll) < MaxMembers
    /\ coll' = Append(coll, m)
    /\ UNCHANGED <<impl, job, file, rst, ret>>

\* coll.Energy(crds)
CallCollEnergy(crds) ==
    /\ Idle
    /\ ret' = [NoRet EXCEPT !.op = "AmberRestraint.Energy",
                            !.exc = TheCollEnergy(coll, crds).exc,
                            !.arg = Crd(crds),
                            !.e = TheCollEnergy(coll, crds).e]
    /\ UNCHANGED <<impl, job, file, rst, coll>>

CollRet(crds, v) ==
    [NoRet EXCEPT !.op = "AmberRestraint.EnergyAndGradients",
                  !.exc = v.exc, !.arg = Crd(crds), !.e = v.e, !.g = v.g]

\* coll.EnergyAndGradients(crds)
CallCollEnergyAndGradients(crds) ==
    /\ Idle
    /\ ret' = CollRet(crds,
                  AmberRestraint_EnergyAndGradients(coll, crds, Len(coll)))
    /\ UNCHANGED <<impl, job, file, rst, coll>>

\* coll.DecomposeEnergy(crds)
CallDecomposeEnergy(crds) ==
    /\ Idle
    /\ ret' = [NoRet EXCEPT !.op = "AmberRestraint.DecomposeEnergy",
                            !.exc = TheDecomposeEnergy(coll, crds).exc,
                            !.arg = Crd(crds),
                            !.dec = TheDecomposeEnergy(coll, crds).dec]
    /\ UNCHANGED <<impl, job, file, rst, coll>>

NextColl ==
    \/ /\ Idle
       /\ \E m \in MemberInputs : AppendMember(m)
    \/ /\ Idle
       /\ \E crds \in CollCrdsInputs : CallCollEnergy(crds)
    \/ /\ Idle
       /\ \E crds \in CollCrdsInputs : CallCollEnergyAndGradients(crds)
    \/ /\ Idle
       /\ \E crds \in CollCrdsInputs : CallDecomposeEnergy(crds)
    \/ Resume

SpecColl == Init /\ [][NextColl]_vars

(***************************************************************************)
(* Properties of the collection                                            *)
(***************************************************************************)
\* the list the last call on the collection was given
GivenCrds == ret.arg.crds

\* the sum of the four components of a decomposition
ComponentSum(d) == d.Bond + d.Angle + d.Torsion + d.GenDist

\* C8: for any collection and any input, the Bond, Angle, Torsion and
\* Gen. Dist. Coord. entries of DecomposeEnergy(input) add up to
\* Energy(input) of the same collection, and so does the 'Restraint' entry.
C8_DecompositionSumsToTotal ==
    (ret.op = "AmberRestraint.DecomposeEnergy" /\ ret.exc = "none"
       /\ TheCollEnergy(coll, GivenCrds).exc = "none") =>
        /\ ComponentSum(ret.dec) = TheCollEnergy(coll, GivenCrds).e
        /\ ret.dec.Restraint = ComponentSum(ret.dec)

\* C8 in AmberRestraint.py alone
C8_InLegacy == impl = "AmberRestraint" => C8_DecompositionSumsToTotal

\* the energy of member i on the argument a
MemberEnergy(i, a) == Energy(coll[i], a)

\* what C9 says each member is evaluated on
MemberArg(i) ==
    IF Len(GivenCrds) = Len(coll) THEN Num(GivenCrds[i]) ELSE Crd(GivenCrds)

\* C9: in rstr.py the collection's Energy is the sum over the members:
\* member i on the i-th number of the input when the input has as many
\* numbers as there are members, every member on the whole input
\* otherwise; an empty collection has energy 0.
C9_EnergySumsMembers ==
    (impl = "rstr" /\ ret.op = "AmberRestraint.Energy") =>
        /\ ret.exc = "none" <=>
              \A i \in 1..Len(coll) : MemberEnergy(i, MemberArg(i)).exc = "none"
        /\ ret.exc = "none" =>
              ret.e = SumSeq([i \in 1..Len(coll) |->
                                MemberEnergy(i, MemberArg(i)).e])
        /\ coll = <<>> => (ret.exc = "none" /\ ret.e = 0)

\* Energy of three members or more on one number each, not all the same.
C9_Witness ==
    /\ impl = "rstr" /\ ret.op = "AmberRestraint.Energy" /\ ret.exc = "none"
    /\ Len(coll) >= 3 /\ Len(GivenCrds) = Len(coll)
    /\ GivenCrds[1] # GivenCrds[2]
    /\ ret.e > 0

\* C10: for every collection and every input, full positions or one number
\* per member, the energy EnergyAndGradients(input) returns is
\* Energy(input).
C10_SameEnergy ==
    (ret.op = "AmberRestraint.EnergyAndGradients" /\ ret.exc = "none"
       /\ TheCollEnergy(coll, GivenCrds).exc = "none") =>
        ret.e = TheCollEnergy(coll, GivenCrds).e

\* C10 with the refusal of an input that Energy accepts counted
C10_AcceptsSameInputs ==
    (ret.op = "AmberRestraint.EnergyAndGradients"
       /\ TheCollEnergy(coll, GivenCrds).exc = "none") =>
        (ret.exc = "none" /\ ret.e = TheCollEnergy(coll, GivenCrds).e)

\* C10 in AmberRestraint.py alone
C10_InLegacy == impl = "AmberRestraint" => C10_AcceptsSameInputs

(***************************************************************************)
(* The collection as a list: construction, append, extend, comparison and  *)
(* assignment by list (class AmberRestraint)                               *)
(***************************************************************************)
MaxList == 2      \* longest collection that is compared or assigned by list

\* NmroptRestraint.__eq__(self, other): same class, the same atoms forwards
\* or reversed, the same force constants and positions; the weights of a
\* generalized distance are not looked at
SamePerm(a, b) == Len(a) > 0 /\ \A i \in 1..Len(a) : a[i] = b[i]

Reversed(s) == [i \in 1..Len(s) |-> s[Len(s) + 1 - i]]

\* __eq__ without the second loop, over the reversed atoms
NmroptRestraint_eq_Forwards(self, other) ==
    /\ other.kind = self.kind
    /\ Len(self.iat) = Len(other.iat)
    /\ SamePerm(self.iat, other.iat)
    /\ self.rk = other.rk
    /\ self.r = other.r

NmroptRestraint_eq(self, other) ==
    /\ other.kind = self.kind
    /\ Len(self.iat) = Len(other.iat)
    /\ SamePerm(self.iat, other.iat) \/ SamePerm(Reversed(self.iat), other.iat)
    /\ self.rk = other.rk
    /\ self.r = other.r

\* itertools.permutations of a list of n items, as the orders of 1..n
Orders(n) == {f \in [1..n -> 1..n] : \A i, j \in 1..n : f[i] = f[j] => i = j}

\* the flag areSame after the loop over zip(perm_i, perm_j), entered with the
\* flag False: an empty zip leaves it False
ZipSame(a, pi, b, pj) ==
    /\ Len(a) > 0
    /\ \A k \in 1..Len(a) : NmroptRestraint_eq(a[pi[k]], b[pj[k]])

\* AmberRestraint.__eq__(self, other)
AmberRestraint_eq(self, other) ==
    IF Len(self) # Len(other)
    THEN FALSE
    ELSE \E pi \in Orders(Len(self)) :
            \E pj \in Orders(Len(other)) : ZipSame(self, pi, other, pj)

\* AmberRestraint.__ne__(self, other)
AmberRestraint_ne(self, other) == ~AmberRestraint_eq(self, other)

\* a restraint with r0 = c and k0 = k, as the module in use constructs it
Harmonic(c, k) == [n \in {"r0", "k0"} |-> IF n = "r0" THEN c ELSE k]

Member(iat, c, k) ==
    IF impl = "rstr"
    THEN NewRestraint(IF Len(iat) = 2 THEN "Bond" ELSE "Angle", iat, <<>>,
                      Harmonic(c, k)).o
    ELSE Legacy_NewRestraint(iat, <<>>, Harmonic(c, k)).o

\* the restraints a list is built from: a bond and an angle
ListMembers == {Member(<<1, 2>>, 2, 1), Member(<<1, 2, 3>>, HalfTurnDeg, 1)}

\* the object with one parameter assigned again
Reassigned(o, name, v) ==
    TheSetRestraintParameters(o, [n \in {name} |-> v]).o

\* the variants of one member: itself, its atoms reversed, r0 or k0 changed
Variants(o) ==
    {o, [o EXCEPT !.iat = Reversed(o.iat)],
     Reassigned(o, "r0", HalfTurnDeg \div Pi), Reassigned(o, "k0", MaxK + 1)}

\* the collections a collection is compared with: itself in another order,
\* itself with one member replaced by a variant or by another restraint,
\* and itself one member shorter or longer
Others(c) ==
    {c, Reversed(c)}
    \cup UNION {{[c EXCEPT ![i] = v] : v \in Variants(c[i])} :
                    i \in 1..Len(c)}
    \cup {[c EXCEPT ![i] = m] : i \in 1..Len(c), m \in ListMembers}
    \cup {SubSeq(c, 2, Len(c))}
    \cup {Append(c, m) : m \in ListMembers}

\* coll == other
CallEq(other) ==
    /\ Idle
    /\ impl = "rstr"
    /\ ret' = [NoRet EXCEPT !.op = "__eq__", !.other = other,
                            !.val = AmberRestraint_eq(coll, other)]
    /\ UNCHANGED <<impl, job, file, rst, coll>>

\* coll != other
CallNe(other) ==
    /\ Idle
    /\ impl = "rstr"
    /\ ret' = [NoRet EXCEPT !.op = "__ne__", !.other = other,
                            !.val = AmberRestraint_ne(coll, other)]
    /\ UNCHANGED <<impl, job, file, rst, coll>>

\* something that is not a restraint, handed where a restraint is expected
NotARestraint == [NoRstr EXCEPT !.kind = "str"]

\* isinstance(item, NmroptRestraint)
IsRestraint(item) == item.kind \in Kinds

\* AmberRestraint.append(self, item), without the check of the item
AmberRestraint_append_Unchecked(self, item) ==
    [o |-> Append(self, item), exc |-> "none"]

\* AmberRestraint.append(self, item)
AmberRestraint_append(self, item) ==
    IF ~IsRestraint(item)
    THEN [o |-> self, exc |-> "TypeError"]
    ELSE [o |-> Append(self, item), exc |-> "none"]

\* what extend is handed: a list of items, or one thing that cannot be
\* iterated (hasattr(items, '__iter__') is False)
Iterable(s) == [iter |-> TRUE, items |-> s]

NotIterable(x) == [iter |-> FALSE, items |-> <<x>>]

\* the loop of extend: the items are appended one by one, and the first one
\* refused ends the loop with those before it appended
RECURSIVE ExtendLoop(_, _)
ExtendStep(a, rest) ==
    IF a.exc # "none" THEN a ELSE ExtendLoop(a.o, rest)

ExtendLoop(self, items) ==
    IF items = <<>>
    THEN [o |-> self, exc |-> "none"]
    ELSE ExtendStep(AmberRestraint_append(self, Head(items)), Tail(items))

\* AmberRestraint.extend(self, items)
AmberRestraint_extend(self, arg) ==
    IF arg.iter THEN ExtendLoop(self, arg.items)
    ELSE [o |-> self, exc |-> "none"]

\* AmberRestraint.__init__(self, *rstrs): each argument extends the list
RECURSIVE InitLoop(_, _)
InitStep(a, rest) ==
    IF a.exc # "none" THEN a ELSE InitLoop(a.o, rest)

InitLoop(self, rstrs) ==
    IF rstrs = <<>>
    THEN [o |-> self, exc |-> "none"]
    ELSE InitStep(AmberRestraint_extend(self, Head(rstrs)), Tail(rstrs))

AmberRestraint_init(rstrs) == InitLoop(<<>>, rstrs)

\* one name of AmberRestraint.SetRestraintParameters: members 1..n are
\* assigned values 1..n in turn; a member that refuses its value ends the
\* call, with the members before it assigned
RECURSIVE AssignLoop(_, _, _, _, _)
AssignStep(self, name, values, i, n, s) ==
    IF s.exc # "none"
    THEN [o |-> [self EXCEPT ![i] = s.o], exc |-> s.exc]
    ELSE AssignLoop([self EXCEPT ![i] = s.o], name, values, i + 1, n)

AssignLoop(self, name, values, i, n) ==
    IF i > n
    THEN [o |-> self, exc |-> "none"]
    ELSE AssignStep(self, name, values, i, n,
             SetRestraintParameters(self[i], [k \in {name} |-> values[i]]))

\* the loop body, with the values handed out from the last one backwards
AssignName_FromLast(self, name, values) ==
    IF Len(self) >= Len(values)
    THEN AssignLoop(self, name, Reversed(values), 1, Len(values))
    ELSE AssignLoop(self, name, Reversed(values), 1, Len(self))

\* the two cases of the loop body: no more values than members, and more
\* values than members (a warning is printed, and the members are walked)
AssignName(self, name, values) ==
    IF Len(self) >= Len(values)
    THEN AssignLoop(self, name, values, 1, Len(values))
    ELSE AssignLoop(self, name, values, 1, Len(self))

\* AmberRestraint.SetRestraintParameters(self, **rstr_params): the names are
\* taken in the order the dictionary yields them
RECURSIVE AmberRestraint_SetRestraintParameters(_, _, _)
AssignNext(a, kw, order) ==
    IF a.exc # "none" THEN a
    ELSE AmberRestraint_SetRestraintParameters(a.o, kw, order)

AmberRestraint_SetRestraintParameters(self, kw, order) ==
    IF order = <<>>
    THEN [o |-> self, exc |-> "none"]
    ELSE AssignNext(AssignName(self, Head(order), kw[Head(order)]), kw,
                    Tail(order))

\* the values assigned by list: one that every kind accepts as r0, and one
\* that an angle refuses (it lies beyond r4 = 180 degrees)
BulkVals == {ReportConversion("Angle"), 3 * ReportConversion("Angle")}

ValueLists ==
    {Alternating(m, v[1], v[2]) :
        m \in 0..(MaxList + 1),
        v \in {w \in BulkVals \X BulkVals : w[1] # w[2]}}

\* r0 = [...], k0 = [...], or both with the same list
BulkInputs ==
    {[n \in names |-> vs] : names \in {{"r0"}, {"k0"}, {"r0", "k0"}},
                            vs \in ValueLists}

\* the orders in which a dictionary can yield its keys
KeyOrders(kw) ==
    {s \in [1..Cardinality(DOMAIN kw) -> DOMAIN kw] :
        \A i, j \in DOMAIN s : s[i] = s[j] => i = j}

\* what append, extend and the constructor are handed
ItemInputs == ListMembers \cup {NotARestraint}

ItemLists ==
    {<<>>} \cup {<<a>> : a \in ItemInputs}
           \cup {<<a, b>> : a \in ItemInputs, b \in ItemInputs}

ExtendInputs ==
    {Iterable(s) : s \in ItemLists} \cup {NotIterable(m) : m \in ListMembers}

InitInputs ==
    {<<>>} \cup {<<a>> : a \in ExtendInputs}
           \cup {<<a, b>> : a \in ExtendInputs, b \in ExtendInputs}

ListRet(op, given, v) ==
    [NoRet EXCEPT !.op = op, !.exc = v.exc, !.other = given, !.was = coll]

\* coll = AmberRestraint(*rstrs); a constructor that raises leaves no object
ConstructCollection(rstrs) ==
    /\ Idle
    /\ coll = <<>>
    /\ Len(AmberRestraint_init(rstrs).o) <= MaxList
    /\ coll' = IF AmberRestraint_init(rstrs).exc = "none"
               THEN AmberRestraint_init(rstrs).o ELSE coll
    /\ ret' = ListRet("AmberRestraint.__init__", rstrs,
                      AmberRestraint_init(rstrs))
    /\ UNCHANGED <<impl, job, file, rst>>

\* coll.append(item)
CallAppend(item) ==
    /\ Idle
    /\ Len(coll) < MaxList
    /\ coll' = AmberRestraint_append(coll, item).o
    /\ ret' = ListRet("append", <<item>>, AmberRestraint_append(coll, item))
    /\ UNCHANGED <<impl, job, file, rst>>

\* coll.extend(arg)
CallExtend(arg) ==
    /\ Idle
    /\ Len(AmberRestraint_extend(coll, arg).o) <= MaxList
    /\ coll' = AmberRestraint_extend(coll, arg).o
    /\ ret' = ListRet("extend", arg, AmberRestraint_extend(coll, arg))
    /\ UNCHANGED <<impl, job, file, rst>>

\* coll.SetRestraintParameters(**kw) (rstr.py)
CallAssignByList(kw, order) ==
    /\ Idle
    /\ impl = "rstr"
    /\ coll' = AmberRestraint_SetRestraintParameters(coll, kw, order).o
    /\ ret' = [ListRet("AmberRestraint.SetRestraintParameters", <<>>,
                   AmberRestraint_SetRestraintParameters(coll, kw, order))
                EXCEPT !.kw = kw]
    /\ UNCHANGED <<impl, job, file, rst>>

NextList ==
    \/ /\ Idle /\ coll = <<>>
       /\ \E rstrs \in InitInputs : ConstructCollection(rstrs)
    \/ /\ Idle
       /\ \E item \in ItemInputs : CallAppend(item)
    \/ /\ Idle
       /\ \E arg \in ExtendInputs : CallExtend(arg)
    \/ /\ Idle /\ impl = "rstr"
       /\ \E other \in Others(coll) : CallEq(other)
    \/ /\ Idle /\ impl = "rstr"
       /\ \E other \in Others(coll) : CallNe(other)
    \/ /\ Idle /\ impl = "rstr"
       /\ \E kw \in BulkInputs :
            \E order \in KeyOrders(kw) : CallAssignByList(kw, order)
    \/ Resume

SpecList == Init /\ [][NextList]_vars

(***************************************************************************)
(* Properties of the collection as a list                                  *)
(***************************************************************************)
\* a one-to-one pairing of the members of a with the members of b in which
\* every pair is equal as restraints
Pairing(a, b) ==
    /\ Len(a) = Len(b)
    /\ \E f \in Orders(Len(a)) :
          \A i \in 1..Len(a) : NmroptRestraint_eq(a[i], b[f[i]])

\* C11: comparing two collections of any length, the empty ones included,
\* == answers whether they have the same length and their members can be
\* paired one to one into equal restraints, whatever the order; != answers
\* the opposite.  (Two empty collections compare unequal.)
C11_MultisetEquality ==
    /\ ret.op = "__eq__" => (ret.val <=> Pairing(coll, ret.other))
    /\ ret.op = "__ne__" => (ret.val <=> ~Pairing(coll, ret.other))

\* C11, for collections that have members
C11_OnMembers ==
    coll # <<>> \/ ret.other # <<>> => C11_MultisetEquality

\* a collection with members was found equal to a reordering of itself
C11_Witness ==
    /\ ret.op = "__eq__" /\ ret.val
    /\ Len(coll) = 2 /\ ret.other # coll

\* member o holds value v, given in reporting units, under the name r0 or k0
HasValue(o, name, v) ==
    IF name = "k0"
    THEN o.rk = <<v, v>>
    ELSE /\ o.r[2] * ReportConversion(o.kind) = v
         /\ o.r[3] * ReportConversion(o.kind) = v

AssignedByList == ret.op = "AmberRestraint.SetRestraintParameters"

\* the call raised because a member refused its value: that member is left
\* holding positions out of order
MemberRefused ==
    /\ ret.exc = "ValueError"
    /\ \E i \in 1..Len(coll) : ~NonDecreasing(coll[i].r)

\* C12: assigning a list of M values under one name to a collection of N
\* members gives member i value i for every i up to the smaller of N and M
\* and keeps the N members; with more values than members the rest of the
\* values are ignored without an error (only a member refusing its value
\* raises); with fewer, the members past the M-th keep everything they had.
C12_AssignedByIndex ==
    AssignedByList =>
        \A name \in DOMAIN ret.kw :
            /\ Len(coll) = Len(ret.was)
            /\ ret.exc = "none" =>
                 \A i \in 1..Len(coll) :
                    i <= Len(ret.kw[name]) =>
                        HasValue(coll[i], name, ret.kw[name][i])
            /\ Len(ret.kw[name]) > Len(ret.was) =>
                 ret.exc = "none" \/ MemberRefused
            /\ \A i \in 1..Len(coll) :
                 i > Len(ret.kw[name]) => coll[i] = ret.was[i]

\* two members were assigned from a list of three values, and the call
\* returned
C12_Witness ==
    /\ AssignedByList /\ ret.exc = "none"
    /\ Len(ret.was) = 2
    /\ \E name \in DOMAIN ret.kw : Len(ret.kw[name]) = 3

\* the restraints among the items, in their order
RECURSIVE Accepted(_)
Accepted(items) ==
    IF items = <<>> THEN <<>>
    ELSE IF IsRestraint(Head(items))
         THEN <<Head(items)>> \o Accepted(Tail(items))
         ELSE Accepted(Tail(items))

\* the items before the first one that is not a restraint
RECURSIVE UpToRefused(_)
UpToRefused(items) ==
    IF items = <<>> \/ ~IsRestraint(Head(items)) THEN <<>>
    ELSE <<Head(items)>> \o UpToRefused(Tail(items))

\* C13: whatever is constructed, appended or extended, every member of the
\* collection is a restraint; appending something else raises TypeError and
\* leaves the members and their number as they were; what is accepted goes
\* to the end, in the order given, with nothing dropped or moved.
C13_OnlyRestraints ==
    /\ \A i \in 1..Len(coll) : IsRestraint(coll[i])
    /\ ret.op = "append" /\ ~IsRestraint(ret.other[1]) =>
         ret.exc = "TypeError" /\ coll = ret.was
    /\ ret.op = "append" /\ IsRestraint(ret.other[1]) =>
         ret.exc = "none" /\ coll = Append(ret.was, ret.other[1])
    /\ ret.op = "extend" /\ ret.other.iter =>
         /\ coll = ret.was \o UpToRefused(ret.other.items)
         /\ ret.exc = "none" <=> Accepted(ret.other.items) = ret.other.items

\* something that is not a restraint was appended to a collection that had
\* a member, and was refused
C13_Witness ==
    /\ ret.op = "append" /\ ret.exc = "TypeError"
    /\ ret.was # <<>> /\ coll = ret.was

(***************************************************************************)
(* The restraint file: namelist groups read into a collection, and a       *)
(* collection written as namelist groups.  The title line of a file is     *)
(* not a namelist and is left out.  The namelist reader (module namelist)  *)
(* is taken to hand over each group with its name and its keys.            *)
(*                                                                         *)
(* Numerals.  A Python float carries 17 significant digits and str() of a  *)
(* float keeps 12 of them; the model scales both down, to FloatDigits and  *)
(* StrDigits, on whole numbers.                                            *)
(***************************************************************************)
FloatDigits == 4  \* significant digits of a float
StrDigits == 3    \* significant digits str() keeps of a float
MaxGroups == 2    \* most namelist groups in a file written by hand

RECURSIVE Pow10(_)
Pow10(n) == IF n <= 0 THEN 1 ELSE 10 * Pow10(n - 1)

RECURSIVE NumDigits(_)
NumDigits(a) == IF a < 10 THEN 1 ELSE 1 + NumDigits(a \div 10)

\* v with d significant digits kept
RoundTo(v, d) ==
    IF NumDigits(Abs(v)) <= d THEN v
    ELSE Sign(v) * Pow10(NumDigits(Abs(v)) - d)
                 * ((Abs(v) + Pow10(NumDigits(Abs(v)) - d) \div 2)
                    \div Pow10(NumDigits(Abs(v)) - d))

\* float(numeral)
Float(v) == RoundTo(v, FloatDigits)

\* str(x) of a float
Str(x) == RoundTo(x, StrDigits)

PosKeys == {"r1", "r2", "r3", "r4"}

\* one namelist group: its name, which of iat and rstwt it holds, their
\* values, and its numeric keys
Group(name, keys, iat, rstwt, p) ==
    [name |-> name, keys |-> keys, iat |-> iat, rstwt |-> rstwt, p |-> p]

\* float() of every numeric key, as SetRestraintParameters applies it
FloatParams(p) == [n \in DOMAIN p |-> Float(p[n])]

FloatList(s) == [i \in 1..Len(s) |-> Float(s[i])]

\* the body of the loop of ReadAmberRestraintFile for one &rst group
\* (rstr.py)
ReadGroup(nl) ==
    IF "iat" \notin nl.keys
    THEN [o |-> NoRstr, exc |-> "Exception"]
    ELSE IF "rstwt" \in nl.keys
    THEN NewRestraint("Gen. Dist. Coord.", nl.iat, FloatList(nl.rstwt),
                      FloatParams(nl.p))
    ELSE IF Len(nl.iat) = 2
    THEN NewRestraint("Bond", nl.iat, <<>>, FloatParams(nl.p))
    ELSE IF Len(nl.iat) = 3
    THEN NewRestraint("Angle", nl.iat, <<>>, FloatParams(nl.p))
    ELSE IF Len(nl.iat) = 4
    THEN NewRestraint("Torsion", nl.iat, <<>>, FloatParams(nl.p))
    ELSE [o |-> NoRstr, exc |-> "Exception"]

\* the same for AmberRestraint.py: the message of a missing iat reads the
\* name key, which is bound only once an earlier &rst group has been
\* looked through; every other key goes to the constructor
Legacy_ReadGroup(nl, seen) ==
    IF "iat" \notin nl.keys
    THEN [o |-> NoRstr, exc |-> IF seen THEN "Exception" ELSE "NameError"]
    ELSE Legacy_NewRestraint(nl.iat,
             IF "rstwt" \in nl.keys THEN FloatList(nl.rstwt) ELSE <<>>,
             FloatParams(nl.p))

TheReadGroup(nl, seen) ==
    IF impl = "rstr" THEN ReadGroup(nl) ELSE Legacy_ReadGroup(nl, seen)

\* the loop over the namelists: groups of another name are passed over, and
\* the first group that raises ends the call
RECURSIVE ReadLoop(_, _)
ReadNext(m, rest, acc) ==
    IF m.exc # "none"
    THEN [o |-> <<>>, exc |-> m.exc, warned |-> FALSE]
    ELSE ReadLoop(rest, Append(acc, m.o))

ReadLoop(groups, acc) ==
    IF groups = <<>>
    THEN [o |-> acc, exc |-> "none", warned |-> FALSE]
    ELSE IF Head(groups).name # "rst"
    THEN ReadLoop(Tail(groups), acc)
    ELSE ReadNext(TheReadGroup(Head(groups), acc # <<>>), Tail(groups), acc)

\* the end of ReadAmberRestraintFile, returning an empty collection as any
\* other
Finish_Silent(a) == a

\* the end of ReadAmberRestraintFile: rstr.py prints a warning when no
\* restraint was read and returns the empty collection; AmberRestraint.py
\* raises
Finish(a) ==
    IF a.exc # "none" \/ Len(a.o) >= 1 THEN a
    ELSE IF impl = "rstr"
    THEN [a EXCEPT !.warned = TRUE]
    ELSE [a EXCEPT !.exc = "Exception"]

\* ReadAmberRestraintFile(rstFilename), on the groups of the file
ReadAmberRestraintFile(text) == Finish(ReadLoop(text, <<>>))

\* the &rst group WriteRstNamelist builds for a restraint: the atoms, the
\* positions in reporting units, the force constants, and what the kind
\* adds (the weights of a generalized distance)
Namelist(o) ==
    Group("rst",
          IF o.kind = "Gen. Dist. Coord." THEN {"iat", "rstwt"} ELSE {"iat"},
          o.iat,
          [i \in 1..Len(o.rstwt) |-> Str(o.rstwt[i])],
          [n \in PosKeys \cup {"rk2", "rk3"} |->
              CASE n = "r1" -> Str(o.r[1] * ReportConversion(o.kind))
                [] n = "r2" -> Str(o.r[2] * ReportConversion(o.kind))
                [] n = "r3" -> Str(o.r[3] * ReportConversion(o.kind))
                [] n = "r4" -> Str(o.r[4] * ReportConversion(o.kind))
                [] n = "rk2" -> Str(o.rk[1])
                [] OTHER -> Str(o.rk[2])])

\* what a writer is handed as outfile
Outfiles == {"name", "file object", "stdout", "neither"}

\* what a writer leaves: the groups in the file, the exception, and whether
\* a handle the call opened itself is still open
Wrote(text, exc, open) == [text |-> text, exc |-> exc, open |-> open]

\* NmroptRestraint.WriteRstNamelist(self, outfile, closeafter), with text
\* the groups already in the file: a name is opened for writing, which
\* empties the file, and a file object is written at its end; fail says
\* that outfile.write raises
WriteRstNamelist(o, text, outfile, closeafter, fail) ==
    CASE outfile = "neither" -> Wrote(text, "TypeError", FALSE)
      [] outfile = "stdout" ->
           Wrote(text, IF fail THEN "IOError" ELSE "none", FALSE)
      [] outfile = "file object" ->
           IF fail THEN Wrote(text, "IOError", FALSE)
           ELSE Wrote(Append(text, Namelist(o)), "none", FALSE)
      [] OTHER ->
           IF fail THEN Wrote(<<>>, "IOError", TRUE)
           ELSE Wrote(<<Namelist(o)>>, "none", ~closeafter)

\* the loop of WriteAmberRestraintFile over the members, each written with
\* closeafter=False; the fail-th write raises (none when fail = 0)
RECURSIVE WriteLoop(_, _, _, _, _)
WriteNext(self, i, w, outfile, fail) ==
    IF w.exc # "none" THEN w
    ELSE WriteLoop(self, i + 1, w.text, outfile, fail)

WriteLoop(self, i, text, outfile, fail) ==
    IF i > Len(self)
    THEN Wrote(text, "none", FALSE)
    ELSE WriteNext(self, i,
             WriteRstNamelist(self[i], text,
                 IF outfile = "stdout" THEN "stdout" ELSE "file object",
                 FALSE, fail = i),
             outfile, fail)

\* closing the file after the loop, which an exception skips
Closed(w, outfile) ==
    [w EXCEPT !.open = outfile = "name" /\ w.exc # "none"]

\* AmberRestraint.WriteAmberRestraintFile(self, outfile)
WriteAmberRestraintFile(self, text, outfile, fail) ==
    CASE outfile = "neither" -> Wrote(text, "TypeError", FALSE)
      [] outfile = "name" ->
           Closed(WriteLoop(self, 1, <<>>, outfile, fail), outfile)
      [] outfile = "stdout" ->
           Closed(WriteLoop(self, 1, text, outfile, fail), outfile)
      [] OTHER -> Closed(WriteLoop(self, 1, <<>>, outfile, fail), outfile)

\* the six numeric keys WriteRstNamelist writes, with their values
SixKeys(r1, r2, r3, r4, rk2, rk3) ==
    [n \in PosKeys \cup {"rk2", "rk3"} |->
        CASE n = "r1" -> r1 [] n = "r2" -> r2 [] n = "r3" -> r3
          [] n = "r4" -> r4 [] n = "rk2" -> rk2 [] OTHER -> rk3]

\* a numeral with one digit more than str() keeps, and one with one digit
\* more than a float carries
LongNumeral == Pow10(StrDigits) + 1

LongerNumeral == Pow10(FloatDigits) + 1

\* the groups of a file written by hand: a group of another name; the four
\* kinds spelled well; &rst groups without iat, with one atom, with five
\* atoms, with weights on an odd number of atoms and with the wrong number
\* of weights; and bonds with long numerals
GroupInputs ==
    {Group("cntrl", {}, <<>>, <<>>, EmptyParams),
     Group("rst", {"iat"}, <<1, 2>>, <<>>, SixKeys(0, 1, 2, 3, 1, 2)),
     Group("rst", {"iat"}, <<1, 2, 3>>, <<>>, Harmonic(HalfTurnDeg \div Pi, 1)),
     Group("rst", {"iat"}, <<1, 2, 3, 4>>, <<>>, Harmonic(HalfTurnDeg, 2)),
     Group("rst", {"iat", "rstwt"}, <<1, 2, 3, 4>>, <<1, 2>>, Harmonic(2, 1)),
     Group("rst", {}, <<>>, <<>>, Harmonic(2, 1)),
     Group("rst", {"iat"}, <<1>>, <<>>, Harmonic(2, 1)),
     Group("rst", {"iat"}, <<1, 2, 3, 4, 5>>, <<>>, Harmonic(2, 1)),
     Group("rst", {"iat", "rstwt"}, <<1, 2, 3>>, <<1>>, Harmonic(2, 1)),
     Group("rst", {"iat", "rstwt"}, <<1, 2>>, <<1, 2>>, Harmonic(2, 1)),
     Group("rst", {"iat"}, <<1, 2>>, <<>>,
           SixKeys(0, 1, 2, LongNumeral, 1, 2)),
     Group("rst", {"iat"}, <<1, 2>>, <<>>,
           SixKeys(0, 1, 2, LongerNumeral, 1, 2))}

RECURSIVE Texts(_)
Texts(n) ==
    IF n = 0 THEN {<<>>}
    ELSE Texts(n - 1)
         \cup {Append(t, g) : t \in Texts(n - 1), g \in GroupInputs}

TextInputs == Texts(MaxGroups) \ {<<>>}

\* somebody writes the restraint file by hand, before anything is read
EditFile(text) ==
    /\ Idle
    /\ file = <<>> /\ coll = <<>>
    /\ file' = text
    /\ UNCHANGED <<impl, job, rst, coll, ret>>

\* coll = ReadAmberRestraintFile(name of the file); a call that raises
\* leaves coll as it was
CallReadAmberRestraintFile ==
    /\ Idle
    /\ coll' = IF ReadAmberRestraintFile(file).exc = "none"
               THEN ReadAmberRestraintFile(file).o ELSE coll
    /\ ret' = [NoRet EXCEPT !.op = "ReadAmberRestraintFile",
                            !.exc = ReadAmberRestraintFile(file).exc,
                            !.val = ReadAmberRestraintFile(file).warned,
                            !.other = file, !.was = coll]
    /\ UNCHANGED <<impl, job, file, rst>>

WriteRet(op, outfile, closeafter, fail, w) ==
    [NoRet EXCEPT !.op = op, !.exc = w.exc, !.val = w.open,
                  !.other = [outfile |-> outfile, closeafter |-> closeafter,
                             fail |-> fail]]

\* coll.WriteAmberRestraintFile(outfile) (rstr.py); a file object is one the
\* caller has just opened on the file for writing
CallWriteAmberRestraintFile(outfile, fail) ==
    /\ Idle
    /\ impl = "rstr"
    /\ file' = WriteAmberRestraintFile(coll, file, outfile, fail).text
    /\ ret' = WriteRet("WriteAmberRestraintFile", outfile, FALSE, fail,
                       WriteAmberRestraintFile(coll, file, outfile, fail))
    /\ UNCHANGED <<impl, job, rst, coll>>

\* the groups in the file when the call starts: a file object is one the
\* caller has just opened on the file for writing
Opened(text, outfile) == IF outfile = "file object" THEN <<>> ELSE text

\* coll[i].WriteRstNamelist(outfile, closeafter) (rstr.py)
CallWriteRstNamelist(i, outfile, closeafter, fail) ==
    /\ Idle
    /\ impl = "rstr"
    /\ file' = WriteRstNamelist(coll[i], Opened(file, outfile), outfile,
                                closeafter, fail = 1).text
    /\ ret' = WriteRet("WriteRstNamelist", outfile, closeafter, fail,
                       WriteRstNamelist(coll[i], Opened(file, outfile),
                                        outfile, closeafter, fail = 1))
    /\ UNCHANGED <<impl, job, rst, coll>>

NextFile ==
    \/ /\ Idle /\ file = <<>> /\ coll = <<>>
       /\ \E text \in TextInputs : EditFile(text)
    \/ CallReadAmberRestraintFile
    \/ /\ Idle /\ impl = "rstr"
       /\ \E outfile \in Outfiles, fail \in 0..Len(coll) :
            CallWriteAmberRestraintFile(outfile, fail)
    \/ /\ Idle /\ impl = "rstr"
       /\ \E i \in 1..Len(coll), outfile \in Outfiles :
            \E closeafter \in BOOLEAN, fail \in 0..1 :
               CallWriteRstNamelist(i, outfile, closeafter, fail)
    \/ Resume

SpecFile == Init /\ [][NextFile]_vars

(***************************************************************************)
(* Properties of the restraint file                                        *)
(***************************************************************************)
\* the call wrote the whole collection to the file it was given by name
WroteFile ==
    /\ ret.op = "WriteAmberRestraintFile" /\ ret.exc = "none"
    /\ ret.other.outfile = "name"

\* C14: a collection read from a file and written back gives a file that
\* reads as the same restraints: as many, in the same order, each with the
\* same kind, atoms, four positions, two force constants and weights; so
\* reading what WriteAmberRestraintFile wrote gives back the collection.
\* (It does not when a position needs more digits than str() keeps.)
C14_RoundTrip ==
    WroteFile => /\ ReadAmberRestraintFile(file).exc = "none"
                 /\ ReadAmberRestraintFile(file).o = coll

\* every number of the collection is short enough for str()
ShortNumbers ==
    \A i \in 1..Len(coll) :
        /\ \A n \in 1..4 :
             Str(coll[i].r[n] * ReportConversion(coll[i].kind))
                 = coll[i].r[n] * ReportConversion(coll[i].kind)
        /\ \A n \in 1..2 : Str(coll[i].rk[n]) = coll[i].rk[n]

\* C14, for collections whose numbers str() keeps whole
C14_OnShortNumbers == ShortNumbers => C14_RoundTrip

IsRst(g) == g.name = "rst"

\* the &rst groups of the file that was read
RstGroups == SelectSeq(ret.other, IsRst)

FileRead == ret.op = "ReadAmberRestraintFile"

\* a group that can be decoded: it names its atoms, and either has weights,
\* on an even number of atoms and half as many weights, or two, three or
\* four atoms
WellFormed(g) ==
    /\ "iat" \in g.keys
    /\ IF "rstwt" \in g.keys
       THEN Len(g.iat) % 2 = 0 /\ 2 * Len(g.rstwt) = Len(g.iat)
       ELSE Len(g.iat) \in {2, 3, 4}

\* the kind a well-formed group decodes to
KindOf(g) ==
    IF "rstwt" \in g.keys THEN "Gen. Dist. Coord."
    ELSE IF Len(g.iat) = 2 THEN "Bond"
    ELSE IF Len(g.iat) = 3 THEN "Angle"
    ELSE "Torsion"

\* C15: an &rst group without iat, with weights on an odd number of atoms or
\* in the wrong number, or without weights on other than two, three or four
\* atoms, makes the whole read fail and no collection is returned; the
\* well-formed groups become, in order, a generalized distance (weights), a
\* bond (two atoms), an angle (three) or a torsion (four); groups of another
\* name are passed over.
C15_DecodeGroup ==
    FileRead =>
        /\ (\E i \in 1..Len(RstGroups) : ~WellFormed(RstGroups[i])) =>
              ret.exc # "none" /\ coll = ret.was
        /\ RstGroups # <<>>
              /\ (\A i \in 1..Len(RstGroups) : WellFormed(RstGroups[i])) =>
              /\ ret.exc = "none"
              /\ Len(coll) = Len(RstGroups)
              /\ \A i \in 1..Len(coll) :
                    /\ coll[i].kind = KindOf(RstGroups[i])
                    /\ coll[i].iat = RstGroups[i].iat

\* C15 in rstr.py
C15_InRstr == impl = "rstr" => C15_DecodeGroup

\* no &rst group was found in the file that was read
NoneFound == FileRead /\ RstGroups = <<>>

OpenedByName ==
    /\ ret.op \in {"WriteAmberRestraintFile", "WriteRstNamelist"}
    /\ ret.other.outfile = "name"

\* C19: a file that WriteAmberRestraintFile or WriteRstNamelist opened from
\* a name is closed when the call returns or raises, a write that fails
\* part way included.
C19_HandleClosed == OpenedByName => ~ret.val

\* C19, for calls that return and were not told to leave the file open
C19_OnReturn ==
    /\ OpenedByName /\ ret.exc = "none"
    /\ ret.op = "WriteRstNamelist" => ret.other.closeafter
    => ~ret.val

(***************************************************************************)
(* One restraint object: the r0 and k0 shortcuts, an assignment made       *)
(* twice, and the report                                                   *)
(***************************************************************************)
\* a position in degrees so far out that converting it to radians three
\* times over still moves it on the grid
FarOut ==
    (HalfTurnDeg \div Pi) * (HalfTurnDeg \div Pi) * (HalfTurnDeg \div Pi)

\* keyword arguments that name r0, k0 or both
ShortcutInputs ==
    [kind \in Kinds |->
        {p \in SetInputs[kind] : DOMAIN p # {} /\ DOMAIN p \subseteq {"r0", "k0"}}]

\* the keyword arguments of the constructors here: none, the shortcuts, and
\* an r4 far out
FirstInputs ==
    [kind \in Kinds |->
        {EmptyParams, [n \in {"r4"} |-> FarOut]} \cup ShortcutInputs[kind]]

\* obj.SetRestraintParameters(r0=c, k0=k), as the module's test calls it
CallSetShortcut(p) ==
    /\ Idle
    /\ rst # NoRstr
    /\ rst' = TheSetRestraintParameters(rst, p).o
    /\ ret' = [NoRet EXCEPT !.op = "SetRestraintParameters(r0, k0)",
                            !.exc = TheSetRestraintParameters(rst, p).exc,
                            !.kw = p]
    /\ UNCHANGED <<impl, job, file, coll>>

\* what two calls in a row leave: the second call is made only when the
\* first returns; ret.was keeps the positions and force constants the first
\* call left, and ret.val that it returned
TwiceRet(once, twice) ==
    [NoRet EXCEPT !.op = "SetRestraintParameters, twice",
                  !.exc = IF once.exc = "none" THEN twice.exc ELSE once.exc,
                  !.val = once.exc = "none",
                  !.was = <<once.o.r, once.o.rk>>]

Again(once, p) ==
    IF once.exc = "none" THEN TheSetRestraintParameters(once.o, p) ELSE once

\* obj.SetRestraintParameters(**p); obj.SetRestraintParameters(**p)
CallSetRestraintParametersTwice(p) ==
    /\ Idle
    /\ rst # NoRstr
    /\ rst' = Again(TheSetRestraintParameters(rst, p), p).o
    /\ ret' = TwiceRet(TheSetRestraintParameters(rst, p),
                       Again(TheSetRestraintParameters(rst, p), p))
    /\ UNCHANGED <<impl, job, file, coll>>

Min(a, b) == IF a <= b THEN a ELSE b

\* the line of PrintRestraintReport about the coordinates, in reporting
\* units, with the deviations signed
Deviations_Signed(o, c) ==
    [exc |-> c.exc,
     Rcurr |-> c.r * ReportConversion(o.kind),
     d_avg2 |-> (2 * c.r - (o.r[2] + o.r[3])) * ReportConversion(o.kind),
     min_d |-> Min(c.r - o.r[2], c.r - o.r[3]) * ReportConversion(o.kind)]

\* the line of PrintRestraintReport about the coordinates, in reporting
\* units: Rcurr, d_avg = abs(curr - (r2+r3)/2) (doubled here), and
\* min_d = min(abs(curr - r2), abs(curr - r3))
Deviations(o, c) ==
    [exc |-> c.exc,
     Rcurr |-> c.r * ReportConversion(o.kind),
     d_avg2 |-> Abs(2 * c.r - (o.r[2] + o.r[3])) * ReportConversion(o.kind),
     min_d |-> Min(Abs(c.r - o.r[2]), Abs(c.r - o.r[3]))
                  * ReportConversion(o.kind)]

\* the atoms on each line of PrintRestraintReport that lists atoms: one line
\* for four atoms or fewer, else the first four atoms on one line and the
\* atoms range(4, len(iat)) on the next
AtomLines(iat) ==
    IF Len(iat) <= 4 THEN <<iat>>
    ELSE <<SubSeq(iat, 1, 4), SubSeq(iat, 5, Len(iat))>>

\* obj.PrintRestraintReport(crds), with crds given
PrintRestraintReport(o, crds) == Deviations(o, TheCoord(o, crds))

CallPrintRestraintReport(crds) ==
    /\ Idle
    /\ rst # NoRstr
    /\ ret' = [NoRet EXCEPT !.op = "PrintRestraintReport",
                            !.exc = PrintRestraintReport(rst, crds).exc,
                            !.arg = Crd(crds),
                            !.other = PrintRestraintReport(rst, crds),
                            !.lines = AtomLines(rst.iat)]
    /\ UNCHANGED <<impl, job, file, rst, coll>>

NextAssign ==
    \/ /\ Idle /\ rst = NoRstr /\ impl = "rstr"
       /\ \E kind \in Kinds, iat \in IatInputs :
            \E rstwt \in RstwtInputs(kind), p \in FirstInputs[kind] :
               Construct(kind, iat, rstwt, p)
    \/ /\ Idle /\ rst = NoRstr /\ impl = "AmberRestraint"
       /\ \E iat \in IatInputs :
            \E p \in FirstInputs[Legacy_rstType(iat)] :
               LegacyConstruct(iat, <<>>, p)
    \/ /\ Idle /\ rst # NoRstr
       /\ \E p \in ShortcutInputs[rst.kind] : CallSetShortcut(p)
    \/ /\ Idle /\ rst # NoRstr
       /\ \E p \in SetInputs[rst.kind] : CallSetRestraintParametersTwice(p)
    \/ /\ Idle /\ rst # NoRstr
       /\ \E crds \in CrdsInputs : CallPrintRestraintReport(crds)
    \/ Resume

SpecAssign == Init /\ [][NextAssign]_vars

(***************************************************************************)
(* Properties of the shortcuts, of repeated assignment and of the report   *)
(***************************************************************************)
Shortcut == ret.op = "SetRestraintParameters(r0, k0)" /\ ret.exc = "none"

\* the positions of the restraint, in reporting units
Reported(i) == rst.r[i] * ReportConversion(rst.kind)

\* C17: assigning r0 = c makes r2 = r3 = c, with r1 = c - 500 and
\* r4 = c + 500 for a bond or a generalized distance, r1 = c - 180 and
\* r4 = c + 180 degrees for a torsion, and r1 = 0 and r4 = 180 degrees for
\* an angle; assigning k0 = k makes both force constants k.
C17_Shortcuts ==
    Shortcut =>
        /\ "r0" \in DOMAIN ret.kw =>
             /\ Reported(2) = ret.kw["r0"] /\ Reported(3) = ret.kw["r0"]
             /\ rst.kind \in {"Bond", "Gen. Dist. Coord."} =>
                   /\ Reported(1) = ret.kw["r0"] - 500
                   /\ Reported(4) = ret.kw["r0"] + 500
             /\ rst.kind = "Torsion" =>
                   /\ Reported(1) = ret.kw["r0"] - 180
                   /\ Reported(4) = ret.kw["r0"] + 180
             /\ rst.kind = "Angle" =>
                   Reported(1) = 0 /\ Reported(4) = 180
        /\ "k0" \in DOMAIN ret.kw => rst.rk = <<ret.kw["k0"], ret.kw["k0"]>>

\* C17 in rstr.py
C17_InRstr == impl = "rstr" => C17_Shortcuts

\* C18: SetRestraintParameters called twice in a row with the same
\* arguments leaves the positions and force constants the first call left,
\* and the second call returns whenever the first did.
C18_Idempotent ==
    ret.op = "SetRestraintParameters, twice" /\ ret.val =>
        ret.exc = "none" /\ <<rst.r, rst.rk>> = ret.was

\* C18 in rstr.py
C18_InRstr == impl = "rstr" => C18_Idempotent

\* C20: with positions given, the report shows the current coordinate, its
\* signed distance from the middle of the flat bottom, Rcurr - (r2+r3)/2,
\* and MIN(Rcurr - r2, Rcurr - r3), each with its sign (negative below the
\* flat bottom).
C20_SignedDeviations ==
    ret.op = "PrintRestraintReport" /\ ret.exc = "none" =>
        ret.other = Deviations_Signed(rst, TheCoord(rst, ret.arg.crds))

\* C20, for a coordinate at or beyond r3, where nothing is negative
C20_AboveWindow ==
    /\ ret.op = "PrintRestraintReport" /\ ret.exc = "none"
    /\ ret.other.Rcurr >= Reported(3) /\ ret.other.Rcurr >= Reported(2)
    => C20_SignedDeviations

(***************************************************************************)
(* The report of restraints on many atoms                                  *)
(***************************************************************************)
MaxAtoms == 10

\* atom lists 1..n and the weight list that fits each
AtomLists == {[i \in 1..n |-> i] : n \in 2..MaxAtoms}

UnitWeights(kind, iat) ==
    IF kind = "Gen. Dist. Coord." THEN [i \in 1..(Len(iat) \div 2) |-> 1]
    ELSE <<>>

\* obj.PrintRestraintReport(), without coordinates: the atom lines and the
\* line of positions and force constants
CallPrintRestraintReportNoCrds ==
    /\ Idle
    /\ rst # NoRstr
    /\ ret' = [NoRet EXCEPT !.op = "PrintRestraintReport()",
                            !.lines = AtomLines(rst.iat)]
    /\ UNCHANGED <<impl, job, file, rst, coll>>

NextReport ==
    \/ /\ Idle /\ rst = NoRstr /\ impl = "rstr"
       /\ \E kind \in Kinds, iat \in AtomLists :
            \E p \in FirstInputs[kind] :
               Construct(kind, iat, UnitWeights(kind, iat), p)
    \/ /\ Idle /\ rst = NoRstr /\ impl = "AmberRestraint"
       /\ \E iat \in IatInputs :
            \E p \in FirstInputs[Legacy_rstType(iat)] :
               LegacyConstruct(iat, <<>>, p)
    \/ /\ Idle /\ rst # NoRstr
       /\ \E crds \in CrdsInputs : CallPrintRestraintReport(crds)
    \/ CallPrintRestraintReportNoCrds
    \/ Resume

SpecReport == Init /\ [][NextReport]_vars

AtomsReported == ret.op \in {"PrintRestraintReport", "PrintRestraintReport()"}

\* C21: the report lists the atoms of a restraint on one line when there
\* are four or fewer and four to a line when there are more, so that no
\* line of the report carries more than four atoms, whatever their number.
C21_FourPerLine ==
    AtomsReported /\ impl = "rstr" =>
        \A i \in DOMAIN ret.lines : Len(ret.lines[i]) <= 4

\* C21, for restraints on eight atoms or fewer
C21_UpToEight == Len(rst.iat) <= 8 => C21_FourPerLine

(***************************************************************************)
(* Gradients of the distance coordinates                                   *)
(***************************************************************************)
\* atom lists of the constructors here: pairs that share an atom too
SharedAtomLists ==
    IatInputs \cup {<<2, 1>>, <<1, 2, 2, 3>>, <<1, 2, 1, 2>>, <<3, 4, 1, 2>>}

NextGrad ==
    \/ /\ Idle /\ rst = NoRstr /\ impl = "rstr"
       /\ \E kind \in Kinds, iat \in SharedAtomLists :
            \E rstwt \in RstwtInputs(kind), p \in FirstInputs[kind] :
               Construct(kind, iat, rstwt, p)
    \/ /\ Idle /\ rst # NoRstr
       /\ \E crds \in CrdsInputs : CallCoord(crds)
    \/ /\ Idle /\ rst # NoRstr
       /\ \E crds \in CrdsInputs : CallCoordAndGradients(crds)
    \/ Resume

SpecGrad == Init /\ [][NextGrad]_vars

\* what the pair of atoms i and j puts on component n of a gradient: the
\* provider's sub-gradient on the components of i and of j, nothing elsewhere
PairGrad(crds, i, j, n) ==
    (IF 3 * i < n /\ n <= 3 * i + 3
     THEN BondAndGradients(crds, i, j).drdxi[n - 3 * i] ELSE 0)
    + (IF 3 * j < n /\ n <= 3 * j + 3
       THEN BondAndGradients(crds, i, j).drdxj[n - 3 * j] ELSE 0)

\* the weighted sum over the first k pairs of o of the pair distances
RECURSIVE WeightedDistances(_, _, _)
WeightedDistances(o, crds, k) ==
    IF k = 0 THEN 0
    ELSE WeightedDistances(o, crds, k - 1)
         + o.rstwt[k] * Bond(crds, o.iat[2 * k - 1] - 1, o.iat[2 * k] - 1)

\* the weighted sum over the first k pairs of o of what each pair puts on
\* component n
RECURSIVE WeightedPairGrads(_, _, _, _)
WeightedPairGrads(o, crds, n, k) ==
    IF k = 0 THEN 0
    ELSE WeightedPairGrads(o, crds, n, k - 1)
         + o.rstwt[k] * PairGrad(crds, o.iat[2 * k - 1] - 1,
                                 o.iat[2 * k] - 1, n)

GradientReturned == ret.op = "CoordAndGradients" /\ ret.exc = "none"

GradientEvaluated == impl = "rstr" /\ Evaluated /\ ~ret.arg.num

\* dE/dr as a function of the coordinate r, case by case
DedrLaw(o, r, dedr) ==
    /\ r < o.r[1] => dedr = 2 * o.rk[1] * (o.r[1] - o.r[2])
    /\ o.r[1] <= r /\ r < o.r[2] => dedr = 2 * o.rk[1] * (r - o.r[2])
    /\ o.r[2] <= r /\ r < o.r[3] => dedr = 0
    /\ o.r[3] <= r /\ r < o.r[4] => dedr = 2 * o.rk[2] * (r - o.r[3])
    /\ r >= o.r[4] => dedr = 2 * o.rk[2] * (o.r[4] - o.r[3])

\* every component of the gradient is dE/dr times the same component of
\* dr/dx from CoordAndGradients
TimesDrdx(g, dedr, drdx) ==
    /\ Len(g) = Len(drdx)
    /\ \A n \in 1..Len(g) : g[n] = dedr * drdx[n]

\* C23: every component of the gradient of EnergyAndGradients is dE/dr
\* times the same component of dr/dx from CoordAndGradients, where dE/dr is
\* 2 k_left (r1 - r2) for r < r1, 2 k_left (r - r2) for r1 <= r < r2, 0 for
\* r2 <= r < r3, 2 k_right (r - r3) for r3 <= r < r4 and 2 k_right (r4 - r3)
\* for r >= r4.
C23_ChainRule ==
    GradientEvaluated =>
        /\ TimesDrdx(ret.g, ret.dedr,
                     CoordAndGradients(rst, ret.arg.crds).drdx)
        /\ DedrLaw(rst, ret.r, ret.dedr)

\* C23 on the restraints whose positions are non-decreasing
C23_OnWellFormed == NonDecreasing(rst.r) => C23_ChainRule

\* the chain rule alone, on every restraint
C23_Product ==
    GradientEvaluated =>
        TimesDrdx(ret.g, ret.dedr, CoordAndGradients(rst, ret.arg.crds).drdx)

\* a bond stretched up its right wall, with a gradient that is not zero
C23_OnTheWall ==
    /\ GradientEvaluated /\ NonDecreasing(rst.r)
    /\ rst.kind = "Bond"
    /\ ret.r > rst.r[3] /\ ret.dedr > 0
    /\ \E n \in 1..Len(ret.g) : ret.g[n] # 0

\* the gradient of member i of the collection on the list the call was given
MemberGradient(i) == EnergyAndGradients(coll[i], Crd(GivenCrds)).g

\* C23, for the collection: each component of the gradient of the
\* collection is the sum of that component over the members.
C23_CollectionSum ==
    (impl = "rstr" /\ ret.op = "AmberRestraint.EnergyAndGradients"
       /\ ret.exc = "none") =>
        /\ Len(ret.g) = Len(GivenCrds)
        /\ \A n \in 1..Len(ret.g) :
              ret.g[n] = SumSeq([i \in 1..Len(coll) |-> MemberGradient(i)[n]])

(***************************************************************************)
(* The replica exchange job: input files of a replica (pj_amber_job)       *)
(***************************************************************************)
NReplicas == 2    \* replicas, and states, of the job
MaxCycle == 2     \* last cycle a replica reaches

Replicas == 0..(NReplicas - 1)

\* a state template (an AmberRun): its mdin (title, restart flag, DUMPAVE
\* file named by a cycle, 0 when unset) and what it comes with
Template(restrained) ==
    [title |-> <<>>, restart |-> FALSE, dumpave |-> 0,
     has_restraints |-> restrained, has_refc |-> restrained]

\* the directory r<repl> before anything is written to it
EmptyDir == [mdin |-> <<>>, rstr |-> <<>>, links |-> {}]

\* the job after _checkInput: one state per replica, every replica in its
\* own state and at cycle 1
NewJob(restrained) ==
    [states |-> [sid \in Replicas |-> Template(restrained[sid])],
     status |-> [repl \in Replicas |->
                    [stateid_current |-> repl, cycle_current |-> 1]],
     dirs |-> [repl \in Replicas |-> EmptyDir]]

\* AmberRun.restart(): the template's mdin becomes a restart input
restart(t) == [t EXCEPT !.restart = TRUE]

\* the template after the title is set and restart() is called for cyc > 1
Modified(t, title, cyc) ==
    IF cyc > 1 THEN restart([t EXCEPT !.title = title])
    ELSE [t EXCEPT !.title = title]

\* the template after the DUMPAVE file of the cycle is named
Traced(t, cyc) == IF t.has_restraints THEN [t EXCEPT !.dumpave = cyc] ELSE t

\* mdin.write_amber_mdin: what the file r<repl>/mdin holds
WrittenMdin(t) ==
    [title |-> t.title, restart |-> t.restart, dumpave |-> t.dumpave]

\* the links _buildInpFile makes in the directory of the replica
Linked(t, cyc) ==
    {"prmtop"}
    \cup (IF t.has_refc THEN {"refc"} ELSE {})
    \cup (IF cyc = 1 THEN {"inpcrd of cycle 0"} ELSE {})

\* the directory of the replica after _buildInpFile, t being the template
\* as modified
BuiltDir(d, t, title, cyc) ==
    [mdin |-> WrittenMdin(t),
     rstr |-> IF t.has_restraints THEN title ELSE d.rstr,
     links |-> d.links \cup Linked(t, cyc)]

\* what the caller of _buildInpFile can see of the call
BuildRet(repl, sid, cyc, before, t) ==
    [NoRet EXCEPT !.op = "_buildInpFile",
                  !.other = [repl |-> repl, sid |-> sid, cyc |-> cyc,
                             mdin |-> WrittenMdin(t),
                             linked |-> Linked(t, cyc),
                             was |-> before.restart]]

BuildStep(repl, sid, cyc, t) ==
    /\ job' = [job EXCEPT !.states[sid] = t,
                          !.dirs[repl] = BuiltDir(@, t, <<repl, sid, cyc>>,
                                                  cyc)]
    /\ ret' = BuildRet(repl, sid, cyc, job.states[sid], t)

NoState == -1

\* self._buildInpFile(repl, state); state is NoState for the default None
BuildInpFile(repl, state) ==
    /\ Idle
    /\ job # NoJob
    /\ BuildStep(repl,
                 IF state = NoState
                 THEN job.status[repl].stateid_current ELSE state,
                 job.status[repl].cycle_current,
                 Traced(Modified(job.states[
                                   IF state = NoState
                                   THEN job.status[repl].stateid_current
                                   ELSE state],
                                 <<repl,
                                   IF state = NoState
                                   THEN job.status[repl].stateid_current
                                   ELSE state,
                                   job.status[repl].cycle_current>>,
                                 job.status[repl].cycle_current),
                        job.status[repl].cycle_current))
    /\ UNCHANGED <<impl, rst, coll, file>>

\* the job driver moves a replica to its next cycle
NextCycle(repl) ==
    /\ Idle
    /\ job # NoJob
    /\ job.status[repl].cycle_current < MaxCycle
    /\ job' = [job EXCEPT !.status[repl].cycle_current = @ + 1]
    /\ UNCHANGED <<impl, rst, coll, file, ret>>

\* the job driver exchanges the states of two replicas
Exchange(a, b) ==
    /\ Idle
    /\ job # NoJob
    /\ a # b
    /\ job' = [job EXCEPT
                 !.status[a].stateid_current = job.status[b].stateid_current,
                 !.status[b].stateid_current = job.status[a].stateid_current]
    /\ UNCHANGED <<impl, rst, coll, file, ret>>

InitJob ==
    /\ impl = "rstr"
    /\ rst = NoRstr
    /\ coll = <<>>
    /\ file = <<>>
    /\ job \in {NewJob(restrained) : restrained \in [Replicas -> BOOLEAN]}
    /\ ret = NoRet

NextJob ==
    \/ \E repl \in Replicas, state \in Replicas \cup {NoState} :
          BuildInpFile(repl, state)
    \/ \E repl \in Replicas : NextCycle(repl)
    \/ \E a \in Replicas, b \in Replicas : Exchange(a, b)
    \/ Resume

SpecJob == InitJob /\ [][NextJob]_vars

Built == ret.op = "_buildInpFile"

\* C24: whatever calls of _buildInpFile came before, for whichever replicas
\* and states, the mdin written for a replica is a restart input exactly
\* when the cycle of that replica is beyond 1, and the link to the inpcrd
\* of cycle 0 is made exactly when the cycle is 1.
C24_RestartIffLaterCycle ==
    Built =>
        /\ ret.other.mdin.restart <=> ret.other.cyc > 1
        /\ "inpcrd of cycle 0" \in ret.other.linked <=> ret.other.cyc = 1

\* C24, for a state template no replica beyond cycle 1 was built from before
C24_OnFreshTemplate == Built /\ ~ret.other.was => C24_RestartIffLaterCycle

\* a replica at cycle 1 built from a template used before at a later cycle
C24_UsedTemplate == Built /\ ret.other.was /\ ret.other.cyc = 1

(***************************************************************************)
(* Assignment of positions alone and of force constants alone              *)
(***************************************************************************)
KNames == {"k0", "rk2", "rk3"}

\* keyword arguments that name force constants only, or positions only
OnlyInputs ==
    [kind \in Kinds |->
        {p \in SetInputs[kind] :
            /\ DOMAIN p # {}
            /\ \/ DOMAIN p \subseteq KNames
               \/ DOMAIN p \cap KNames = {}}]

\* before = (obj.r, obj.rk); obj.SetRestraintParameters(**p): the caller
\* keeps the positions and force constants of before the call
CallSetRestraintParametersKept(p) ==
    /\ Idle
    /\ rst # NoRstr
    /\ rst' = TheSetRestraintParameters(rst, p).o
    /\ ret' = [NoRet EXCEPT !.op = "SetRestraintParameters(**p)",
                            !.exc = TheSetRestraintParameters(rst, p).exc,
                            !.kw = p,
                            !.was = <<rst.r, rst.rk>>]
    /\ UNCHANGED <<impl, job, file, coll>>

NextKeep ==
    \/ /\ Idle /\ rst = NoRstr /\ impl = "rstr"
       /\ \E kind \in Kinds, iat \in IatInputs :
            \E rstwt \in RstwtInputs(kind), p \in FirstInputs[kind] :
               Construct(kind, iat, rstwt, p)
    \/ /\ Idle /\ rst = NoRstr /\ impl = "AmberRestraint"
       /\ \E iat \in IatInputs :
            \E p \in FirstInputs[Legacy_rstType(iat)] :
               LegacyConstruct(iat, <<>>, p)
    \/ /\ Idle /\ rst # NoRstr
       /\ \E p \in OnlyInputs[rst.kind] : CallSetRestraintParametersKept(p)
    \/ Resume

SpecKeep == Init /\ [][NextKeep]_vars

AssignedOnly == ret.op = "SetRestraintParameters(**p)"

\* C25: SetRestraintParameters given only names of force constants (k0, rk2,
\* rk3) leaves the four positions as they were, and given only names of
\* positions leaves the two force constants as they were, for every kind of
\* restraint, those stored in radians included.
C25_Independent ==
    AssignedOnly =>
        /\ DOMAIN ret.kw \subseteq KNames => rst.r = ret.was[1]
        /\ DOMAIN ret.kw \cap KNames = {} => rst.rk = ret.was[2]

\* C25 in rstr.py
C25_InRstr == impl = "rstr" => C25_Independent

\* force constants assigned to an angle or torsion of rstr.py whose
\* positions are not all zero
C25_AngleKept ==
    /\ impl = "rstr" /\ AssignedOnly /\ ret.exc = "none"
    /\ rst.kind \in {"Angle", "Torsion"}
    /\ DOMAIN ret.kw \subseteq KNames
    /\ rst.r[4] # 0 /\ rst.rk # ret.was[2]

(***************************************************************************)
(* Energy of a coordinate value                                            *)
(***************************************************************************)
\* the call Energy(crds) of rstr.py returned
EnergyOfCrds == impl = "rstr" /\ Evaluated /\ ~ret.arg.num

\* the call Energy(x), x a number, of rstr.py returned
EnergyOfNumber == impl = "rstr" /\ Evaluated /\ ret.arg.num

\* obj.Energy(obj.Coord(crds)) of rstr.py
EnergyOfCoord(o, crds) ==
    IF Coord(o, crds).exc # "none"
    THEN [exc |-> Coord(o, crds).exc, e |-> 0]
    ELSE Energy(o, Num(Coord(o, crds).r))

\* C26: Energy(Coord(x)) is Energy(x) for every kind of restraint, the
\* torsion included, and every Cartesian x; Energy of a number applies the
\* piecewise law to the number as given, without any geometry.
C26_EnergyOfCoord ==
    /\ EnergyOfCrds =>
          EnergyOfCoord(rst, ret.arg.crds) = [exc |-> "none", e |-> ret.e]
    /\ EnergyOfNumber =>
          /\ ret.r = ret.arg.x
          /\ ret.e = EnergyBranch(rst, BranchOf(rst, ret.arg.x), ret.arg.x).e

\* the energy of a torsion whose dihedral was shifted by a turn, and is
\* not zero
C26_Witness ==
    /\ EnergyOfCrds
    /\ rst.kind = "Torsion"
    /\ ret.r # RawDihedral
    /\ ret.e > 0

(***************************************************************************)
(* The nearest-image loop of the torsion, one iteration at a time          *)
(***************************************************************************)
\* a + b in floating point: the sum keeps FloatDigits significant digits
\* (53 bits in the program), so a small b is lost on a large a
FloatSum(a, b) == RoundTo(a + b, FloatDigits)

\* r0 of the torsions here, in degrees: centers near the dihedral, and two
\* far from it, the farther one beyond the numbers that 2*pi still changes
CenterInputs == R0In("Torsion") \cup {FarOut, 2 * FarOut}

\* the call is at the test of the while loop, or inside its body
AtLoopTest == ret.op = "Coord: while not isNearestImage"

InLoopBody == ret.op = "Coord: if r - rmean > pi"

InLoop == AtLoopTest \/ InLoopBody

\* r = coordinates.Dihedral(crds,i,j,k,l); isNearestImage = False
EnterCoord(crds) ==
    /\ Idle
    /\ rst # NoRstr
    /\ ret' = [NoRet EXCEPT !.op = "Coord: while not isNearestImage",
                            !.arg = Crd(crds),
                            !.r = Dihedral(crds, rst.iat[1] - 1,
                                           rst.iat[2] - 1, rst.iat[3] - 1,
                                           rst.iat[4] - 1),
                            !.val = FALSE]
    /\ UNCHANGED <<impl, job, file, rst, coll>>

\* one pass of the body of the while loop; rmean2 is r2 + r3, twice rmean
LoopBody(c, rmean2) ==
    IF 2 * c.r - rmean2 > 2 * Pi THEN [c EXCEPT !.r = FloatSum(@, -2 * Pi)]
    ELSE IF rmean2 - 2 * c.r > 2 * Pi
    THEN [c EXCEPT !.r = FloatSum(@, 2 * Pi)]
    ELSE [c EXCEPT !.val = TRUE]

\* while not isNearestImage: the body is entered
LoopTest ==
    /\ AtLoopTest
    /\ ~ret.val
    /\ ret' = [ret EXCEPT !.op = "Coord: if r - rmean > pi"]
    /\ UNCHANGED <<impl, job, file, rst, coll>>

\* the body is run, and the test comes next
LoopStep ==
    /\ InLoopBody
    /\ ret' = [LoopBody(ret, rst.r[2] + rst.r[3])
                 EXCEPT !.op = "Coord: while not isNearestImage"]
    /\ UNCHANGED <<impl, job, file, rst, coll>>

\* return r
ReturnCoord ==
    /\ AtLoopTest
    /\ ret.val
    /\ ret' = CoordRet("Coord", ret.arg.crds, [exc |-> "none", r |-> ret.r],
                       <<>>)
    /\ UNCHANGED <<impl, job, file, rst, coll>>

NextImage ==
    \/ /\ Idle /\ rst = NoRstr /\ impl = "rstr"
       /\ \E r0 \in CenterInputs :
            Construct("Torsion", <<1, 2, 3, 4>>, <<>>, [n \in {"r0"} |-> r0])
    \/ /\ Idle /\ rst # NoRstr
       /\ \E crds \in Conformations : EnterCoord(crds)
    \/ LoopTest
    \/ LoopStep
    \/ ReturnCoord
    \/ /\ ~InLoop
       /\ Resume

\* the loop, once entered, keeps running, and returns when it is left
SpecImage ==
    /\ Init /\ [][NextImage]_vars
    /\ WF_vars(LoopTest) /\ WF_vars(LoopStep) /\ WF_vars(ReturnCoord)

CoordReturned == ret.op = "Coord"

\* C27: the nearest-image loop of the torsion coordinate ends for every
\* raw dihedral and every center of the window, and what it returns is the
\* raw dihedral moved by a whole number of turns.
C27_Terminates == InLoop ~> CoordReturned

\* C27, for centers that 2*pi still changes
C27_NearCenters ==
    (InLoop /\ Abs(rst.r[2] + rst.r[3]) < 2 * Pow10(FloatDigits))
        ~> CoordReturned

\* C27: what the loop returns is the raw dihedral moved by whole turns
C27_WholeTurns ==
    CoordReturned => (ret.r - RawDihedral) % (2 * Pi) = 0

\* the loop returned after a thousand turns and more
C27_ManyTurns == CoordReturned /\ ret.r - RawDihedral > 1000 * 2 * Pi

\* the loop where another 2*pi changes nothing, short of the window
C27_Stuck ==
    /\ InLoopBody
    /\ LoopBody(ret, rst.r[2] + rst.r[3]) = ret

(***************************************************************************)
(* Sign and slope of the energy                                            *)
(***************************************************************************)
\* the arguments Energy is called with
EnergyArgs == {Num(x) : x \in CoordVals} \cup {Crd(crds) : crds \in CrdsInputs}

\* the restraint is well formed and neither force constant is negative
WellFormedWell == NonDecreasing(rst.r) /\ rst.rk[1] >= 0 /\ rst.rk[2] >= 0

\* the energy at v, another evaluation of the same restraint, is on the
\* right side of the energy just returned
Sloping(v) ==
    /\ v.r <= ret.r /\ ret.r <= rst.r[2] => v.e >= ret.e
    /\ rst.r[3] <= ret.r /\ ret.r <= v.r => v.e >= ret.e

\* C28: on every well-formed restraint whose force constants are not
\* negative the energy is never negative, never rises with r up to r2 and
\* never falls with r from r3 on.
C28_NonNegativeMonotone ==
    Evaluated /\ WellFormedWell =>
        /\ ret.e >= 0
        /\ \A a \in EnergyArgs :
              TheEnergyAndGradients(rst, a).exc = "none" =>
                 Sloping(TheEnergyAndGradients(rst, a))

\* C28 in AmberRestraint.py
C28_InLegacy == impl = "AmberRestraint" => C28_NonNegativeMonotone

\* an energy on the flat outer part of a right wall
C28_Witness ==
    /\ Evaluated /\ WellFormedWell
    /\ rst.rk[2] > 0 /\ rst.r[3] < rst.r[4]
    /\ ret.r > rst.r[4]
    /\ ret.e > rst.rk[2] * (rst.r[4] - rst.r[3]) * (rst.r[4] - rst.r[3])

\* the same in AmberRestraint.py: a bond evaluated beyond r3 and short of it
C28_LegacyWitness ==
    /\ impl = "AmberRestraint" /\ Evaluated /\ WellFormedWell
    /\ rst.rk[2] > 0 /\ ret.r > rst.r[3] /\ ret.e > 0

(***************************************************************************)
(* Comparison of two restraints                                            *)
(***************************************************************************)
\* atom lists of the restraints compared: forwards, reversed and others
ComparedAtoms ==
    IatInputs \cup {Reversed(iat) : iat \in IatInputs}
    \cup {<<1, 3>>, <<1, 2, 2, 1>>, <<2, 1, 4, 3>>}

\* the weight lists of the restraints compared
ComparedWeights(kind) ==
    IF kind = "Gen. Dist. Coord." THEN {<<1>>, <<1, 2>>, <<2, 1>>} ELSE {<<>>}

\* the restraints of rstr.py that can be built from them
Comparands ==
    UNION {{NewRestraint(kind, iat, rstwt, p).o :
               iat \in ComparedAtoms, rstwt \in ComparedWeights(kind),
               p \in FirstInputs[kind]} : kind \in Kinds}
    \ {NoRstr}

\* NmroptRestraint.__ne__(self, other)
NmroptRestraint_ne(self, other) == ~NmroptRestraint_eq(self, other)

\* obj == other
CallRestraintEq(other) ==
    /\ Idle
    /\ rst # NoRstr
    /\ ret' = [NoRet EXCEPT !.op = "NmroptRestraint.__eq__",
                            !.other = other,
                            !.val = NmroptRestraint_eq(rst, other)]
    /\ UNCHANGED <<impl, job, file, rst, coll>>

\* obj != other
CallRestraintNe(other) ==
    /\ Idle
    /\ rst # NoRstr
    /\ ret' = [NoRet EXCEPT !.op = "NmroptRestraint.__ne__",
                            !.other = other,
                            !.val = NmroptRestraint_ne(rst, other)]
    /\ UNCHANGED <<impl, job, file, rst, coll>>

NextEq ==
    \/ /\ Idle /\ rst = NoRstr /\ impl = "rstr"
       /\ \E kind \in Kinds, iat \in ComparedAtoms :
            \E rstwt \in ComparedWeights(kind), p \in FirstInputs[kind] :
               Construct(kind, iat, rstwt, p)
    \/ /\ Idle /\ rst # NoRstr
       /\ \E other \in Comparands : CallRestraintEq(other)
    \/ /\ Idle /\ rst # NoRstr
       /\ \E other \in Comparands : CallRestraintNe(other)
    \/ Resume

SpecEq == Init /\ [][NextEq]_vars

Compared == ret.op = "NmroptRestraint.__eq__"

\* the atoms of a and b are the same list, or one is the other read
\* backwards
SameAtoms(a, b) ==
    /\ Len(a) = Len(b)
    /\ \/ \A i \in 1..Len(a) : a[i] = b[i]
       \/ \A i \in 1..Len(a) : a[i] = b[Len(b) + 1 - i]

\* C29: equality of restraints is reflexive, symmetric and transitive; two
\* restraints are equal exactly when they are of the same kind, their atoms
\* are the same or exactly reversed, and their four positions and two force
\* constants are equal; the weights of a generalized distance coordinate
\* take no part.
C29_Equivalence ==
    Compared =>
        /\ ret.other = rst => ret.val
        /\ ret.val = NmroptRestraint_eq(ret.other, rst)
        /\ \A c \in Comparands :
              ret.val /\ NmroptRestraint_eq(ret.other, c) =>
                 NmroptRestraint_eq(rst, c)
        /\ ret.val <=> /\ ret.other.kind = rst.kind
                       /\ SameAtoms(rst.iat, ret.other.iat)
                       /\ ret.other.r = rst.r
                       /\ ret.other.rk = rst.rk

\* a torsion equal to the torsion on the same atoms in reverse
C29_Witness ==
    /\ Compared /\ ret.val
    /\ rst.kind = "Torsion"
    /\ rst.iat = <<1, 2, 3, 4>> /\ ret.other.iat = <<4, 3, 2, 1>>
    /\ rst.rk[1] > 0

\* two generalized distance coordinates that differ in their weights only,
\* and are equal
C29_WeightsApart ==
    /\ Compared /\ ret.val
    /\ rst.rstwt # ret.other.rstwt

(***************************************************************************)
(* Assignment by list of several positions in one call                     *)
(***************************************************************************)
\* r2 = [...] and r3 = [...], one value per member, r2 <= r3 for each
WindowVals == {ReportConversion("Angle"), 2 * ReportConversion("Angle")}

WindowInputs ==
    UNION {{[n \in {"r2", "r3"} |-> IF n = "r2" THEN lo ELSE hi] :
               lo \in [1..m -> WindowVals],
               hi \in [1..m -> {3 * ReportConversion("Angle")}]} :
           m \in 1..MaxList}

NextBulk ==
    \/ /\ Idle /\ impl = "rstr"
       /\ \E item \in ListMembers : CallAppend(item)
    \/ /\ Idle /\ impl = "rstr"
       /\ \E kw \in WindowInputs :
            \E order \in KeyOrders(kw) : CallAssignByList(kw, order)
    \/ Resume

SpecBulk == Init /\ [][NextBulk]_vars

BulkAssigned == ret.op = "AmberRestraint.SetRestraintParameters"

\* the positions of member i when every value meant for it is in place
FinalPositions(o, kw, i) ==
    [n \in 1..4 |->
        IF PosNames[n] \in DOMAIN kw /\ i <= Len(kw[PosNames[n]])
        THEN kw[PosNames[n]][i] \div ReportConversion(o.kind)
        ELSE o.r[n]]

\* C30: an assignment by list of several positions in one call (r2 and r3
\* together) succeeds whenever the final positions of every member are
\* non-decreasing, and ends in the same state, and the same success or
\* failure, whatever the order in which the names are applied.
C30_AnyOrder ==
    BulkAssigned =>
        /\ (\A i \in 1..Len(ret.was) :
               NonDecreasing(FinalPositions(ret.was[i], ret.kw, i)))
              => ret.exc = "none"
        /\ \A order \in KeyOrders(ret.kw) :
              AmberRestraint_SetRestraintParameters(ret.was, ret.kw, order)
                 = [o |-> coll, exc |-> ret.exc]

\* C30, for the calls that return: the members hold the positions meant for
\* them
C30_OnReturn ==
    BulkAssigned /\ ret.exc = "none" =>
        \A i \in 1..Len(coll) :
            coll[i].r = FinalPositions(ret.was[i], ret.kw, i)

\* a window moved up on two members at once, and the call returned
C30_MovedUp ==
    /\ BulkAssigned /\ ret.exc = "none"
    /\ Len(coll) = 2
    /\ \A i \in 1..2 : coll[i].r[2] > ret.was[i].r[3]

====
